---- MODULE Spec2Model ----
(***************************************************************************)
(* Elimination tournament of the PicSearch plugin                          *)
(* (PicSearch._process_in_batches, src/main.py) together with the shape of *)
(* its two collaborators, the collage renderer (src/composer.py) and the   *)
(* VLM judge (src/vlm.py).                                                 *)
(*                                                                         *)
(* One tournament call is a small sequential program with two suspension   *)
(* points per batch (await create_collage, await select_from_collage).     *)
(* pc names the position of the call:                                      *)
(*   "loop"  : at the while test of line 143                               *)
(*   "batch" : at the head of the for loop of line 169                     *)
(*   "judge" : suspended in select_from_collage, line 182                  *)
(*   "ret"   : at the return statement of line 217                         *)
(*   "done"  : the call has returned                                       *)
(***************************************************************************)
EXTENDS Integers, Sequences, FiniteSets, TLC

\* ------------------------------------------------------------------ bounds
MaxPool == 3        \* largest initial candidate list explored
MaxBatch == 2       \* largest configured batch_size explored
MaxVerdict == 2     \* longest list of labels the judge returns
MaxRuns == 2        \* calls of the tournament in one behaviour (first call + re-runs)
MaxPage == 2        \* most elements on one page of search results
MaxAttempts == 3    \* largest argument retries of _download_image explored

\* Rounds explored in one call. The code has no such limit; C3_RoundBound
\* shows that the code never reaches it.
MaxRounds == 2 * MaxPool

\* ------------------------------------------------------- program constants
FinalRoundThreshold == 16   \* main.py:152  len(current_winners) <= 16
ForcedChoiceAt == 2         \* main.py:210  stalemate_counter >= 2

\* Python's None, as a returned value.
None == "None"

\* Candidates are URLs: opaque strings.
Url(n) == << "u1", "u2", "u3", "u4", "u5", "u6", "u7", "u8", "u9", "u10", "u11", "u12",
             "u13", "u14", "u15", "u16", "u17", "u18", "u19", "u20", "u21", "u22",
             "u23", "u24" >>[n]
Candidates == { Url(n) : n \in 1..MaxPool }
BatchSizes == 1..MaxBatch

VARIABLES
    image_urls,          \* the list the caller passed in
    batch_size,          \* self.batch_size
    current_winners,     \* the pool
    round_num,
    stalemate_counter,
    next_round_winners,
    effective_prompt,    \* the judging instruction of the round, as its parts
    i,                   \* the for loop's offset into current_winners
    successful_urls,     \* the candidates of the collage being judged
    verdict,             \* selected_indices as the judge just returned it
                         \* (empty again once the call has moved on)
    judged_with,         \* the instructions the judge was given in this round
    pc,
    result,              \* the value the call returned
    exit_line,           \* the return statement that produced it (0: none yet)
    forced,              \* random.choice of line 212 was taken
    render_calls,        \* calls of create_collage in this tournament call
    judge_calls,         \* calls of select_from_collage in this tournament call
    batches,             \* the batches formed so far in the current round
    approved,            \* so far in this round every batch rendered whole and
                         \* the judge returned every label 1..k
    log,                 \* one record per round that ran to its end
    runs,                \* tournament calls made so far
    prev_result,         \* what the previous call returned (None before a re-run)
    \* select_from_collage (src/vlm.py), one call of it
    vlm_pc,              \* "idle", "call" (line 48 is next), "parse", "returned"
    attempt,             \* the for loop's attempt, 0-based
    response,            \* result: the provider's text, as tokens
    returned,            \* the list the call returned
    vlm_line,            \* the return statement that produced it (0: none yet)
    provider_calls,      \* calls of vlm_provider.text_chat
    raised,              \* attempts that ended in the except clause of line 81
    \* the renderer (src/composer.py, src/refenrence/image_composer.py), one call
    renderer,            \* "create_collage" or "create_image_collage"
    rc_pc,               \* "idle", "download", "returned"
    batch_in,            \* the renderer's argument image_urls
    tasks,               \* per candidate: "pending", "ok", "undecodable", "failed"
    completion,          \* the candidates' positions in the order they completed
    collage,             \* the composite as its tiles, << >> for None
    included,            \* the list returned with it
    \* one request (pic_search_tool or _do_pic_search of src/main.py)
    handler,             \* the handler that serves it
    req_pc,              \* "idle", "provider", "scrape", "tournament", "finalize", "ended"
    stages,              \* the collaborators invoked so far, in order
    messages,            \* what the request has told the user so far
    winner_url,          \* the tournament's return value, once it returned
    final_image_bytes,   \* what _download_image(winner_url) returned
    \* two calls of _process_in_batches on one plugin instance
    frames,              \* the locals of each call as they were when it last
                         \* suspended (<< >>: one call only)
    running,             \* the call the event loop is running
    \* _scrape_images_sync (src/scraper.py), one call
    scr_pc,              \* "idle", "fetch" (the while test is next), "exit", "returned"
    count,               \* the argument count
    image_elements,      \* the elements of the page fetched last
    scraped_urls,        \* the local image_urls
    seen_urls,
    first,               \* the pagination index
    scrape_result,       \* the list returned
    break_line,          \* the line that left the while loop, 0 before
    requests_made,       \* calls of session.get (line 41) so far
    \* _download_image (src/composer.py), one call
    dl_pc,               \* "idle", "try", "returned", "raised"
    dl_retries,          \* the argument retries
    dl_attempt,          \* the for loop's attempt, 0-based
    fetches,             \* what became of each session.get so far
    dl_return            \* the value returned

vlm_vars == << vlm_pc, attempt, response, returned, vlm_line, provider_calls, raised >>

composer_vars == << renderer, rc_pc, batch_in, tasks, completion, collage, included >>

request_vars == << handler, req_pc, stages, messages, winner_url, final_image_bytes >>

loop_vars == << frames, running >>

scraper_vars == << scr_pc, count, image_elements, scraped_urls, seen_urls, first,
                   scrape_result, break_line, requests_made >>

download_vars == << dl_pc, dl_retries, dl_attempt, fetches, dl_return >>

side_vars == << vlm_vars, composer_vars, request_vars, loop_vars, scraper_vars,
                download_vars >>

\* what the judge call and a renderer leave alone besides the engine
vlm_rest == << composer_vars, request_vars, loop_vars, scraper_vars, download_vars >>
composer_rest == << vlm_vars, request_vars, loop_vars, scraper_vars, download_vars >>
request_rest == << vlm_vars, composer_vars, loop_vars, scraper_vars, download_vars >>
loop_rest == << vlm_vars, composer_vars, request_vars, scraper_vars, download_vars >>
scraper_rest == << vlm_vars, composer_vars, request_vars, loop_vars, download_vars >>
download_rest == << vlm_vars, composer_vars, request_vars, loop_vars, scraper_vars >>

engine_vars == << image_urls, batch_size, current_winners, round_num, stalemate_counter,
           next_round_winners, effective_prompt, i, successful_urls, verdict,
           judged_with, pc, result,
           exit_line, forced, render_calls, judge_calls, batches, approved, log,
           runs, prev_result >>

vars == << engine_vars, side_vars >>

\* ---------------------------------------------------------------- helpers
Min(a, b) == IF a < b THEN a ELSE b

Range(s) == { s[k] : k \in 1..Len(s) }

NoDup(s) == \A a, b \in 1..Len(s) : a # b => s[a] # s[b]

\* Python's s[from : from + n] on a list (0-based offset).
Slice(s, from, n) == SubSeq(s, from + 1, Min(from + n, Len(s)))

\* The duplicate-free candidate lists of at most n entries: what the scraper
\* hands to the tournament (it appends a URL only if it is not in seen_urls).
RECURSIVE SeqsUpTo(_, _)
SeqsUpTo(S, n) ==
    IF n = 0 THEN { << >> }
    ELSE LET shorter == SeqsUpTo(S, n - 1)
         IN  shorter \cup { Append(s, x) : s \in { t \in shorter : Len(t) = n - 1 }, x \in S }

\* The initial pools. The code treats a URL as an opaque value (it only
\* copies it and hashes it), so the list of n distinct URLs is taken as
\* u1 .. un; every other order of a pool arises after line 202.
Pools == { [ k \in 1..n |-> Url(k) ] : n \in 0..MaxPool }

\* ------------------------------------------------- the renderer's interface
\* create_collage: the candidates whose download and decoding succeeded
\* (positions ok of the batch), in batch order; the collage is one labelled
\* tile per such candidate; no tile at all stands for the None it returns
\* when nothing could be included.
RECURSIVE Included(_, _)
Included(batch_urls, ok) ==
    IF batch_urls = << >> THEN << >>
    ELSE LET n == Len(batch_urls)
             front == Included(SubSeq(batch_urls, 1, n - 1), ok)
         IN  IF n \in ok THEN Append(front, batch_urls[n]) ELSE front

create_collage(batch_urls, ok) ==
    LET urls == Included(batch_urls, ok)
    IN  [ collage_bytes |-> [ t \in 1..Len(urls) |-> [ label |-> t, image |-> urls[t] ] ],
          successful_urls |-> urls ]

\* ---------------------------------------------------- the judge's interface
\* select_from_collage returns a list of non-negative integers: labels of
\* tiles, 0, or numbers beyond the last tile (k + 1 stands for all of them).
Verdicts(k) == SeqsUpTo(0..(k + 1), MaxVerdict)

\* -------------------------------------------------- _process_in_batches
\* Variants of line 143: "while len(current_winners) >= 1" and
\* "while len(current_winners) != 1".
LoopCondition_Inclusive(pool) == Len(pool) >= 1
LoopCondition_NotOne(pool) == Len(pool) # 1

\* line 143: while len(current_winners) > 1
LoopCondition(pool) == Len(pool) > 1

\* Variant of line 152: the final-round directive is added in every round.
EffectivePrompt_EveryRound(pool, counter) ==
    << "description", "final_round" >>
    \o (IF counter > 0 THEN << "force_choice" >> ELSE << >>)

\* lines 148-167: the instruction of the round, as the list of its parts.
EffectivePrompt(pool, counter) ==
    << "description" >>
    \o (IF Len(pool) <= FinalRoundThreshold THEN << "final_round" >> ELSE << >>)
    \o (IF counter > 0 THEN << "force_choice" >> ELSE << >>)

\* line 169: the for loop has another offset to visit
MoreBatches(pool, offset) == offset < Len(pool)

\* Variant of line 170: the slice runs one element too far.
BatchAt_Overlap(pool, offset, size) == Slice(pool, offset, size + 1)

\* line 170: batch_urls = current_winners[i:i + self.batch_size]
BatchAt(pool, offset, size) == Slice(pool, offset, size)

\* Variant of line 170: the batch is taken off the list it is cut from.
PoolAfterSlice_Pop(pool, offset, size) ==
    SubSeq(pool, 1, offset) \o SubSeq(pool, Min(offset + size, Len(pool)) + 1, Len(pool))

\* line 170: a slice is a new list; the list it is cut from stays as it is.
PoolAfterSlice(pool, offset, size) == pool

\* Variant of lines 178 and 185: "break" instead of "continue".
Continue_Break(pool, offset, size) == offset + size * (Len(pool) + 1)

\* lines 178 and 185: continue, the for loop goes on with the next offset of
\* range(0, len(current_winners), self.batch_size)
Continue(pool, offset, size) == offset + size

\* Variant of line 176: the test is missing.
RenderFailed_Never(rendered) == FALSE

\* line 176: if not collage_bytes or not successful_urls
RenderFailed(rendered) ==
    rendered.collage_bytes = << >> \/ rendered.successful_urls = << >>

\* lines 187-191: labels to candidates, 1-based into successful_urls
InRange(index, urls) == 0 <= index - 1 /\ index - 1 < Len(urls)

\* Variant of lines 188-192: the label itself is used as the list index.
BatchWinners_ZeroBased(selected_indices, urls) ==
    LET valid == SelectSeq(selected_indices, LAMBDA index : index < Len(urls))
    IN  [ k \in 1..Len(valid) |-> urls[valid[k] + 1] ]

\* lines 187-195: the labels that name a tile, as candidates, in verdict order
BatchWinners(selected_indices, urls) ==
    LET valid == SelectSeq(selected_indices, LAMBDA index : InRange(index, urls))
    IN  [ k \in 1..Len(valid) |-> urls[valid[k]] ]

\* Variant of line 202 without the set: current_winners = next_round_winners.
DedupOrders_Keep(winners) == { winners }

\* line 202: list(set(next_round_winners)); the iteration order of a set of
\* strings is not fixed by the language, so every order is possible.
DedupOrders(winners) ==
    LET S == Range(winners)
    IN  { s \in [ 1..Cardinality(S) -> S ] : NoDup(s) }

\* Variant of line 197: the empty round is not noticed.
NoSurvivors_Never(winners) == FALSE

\* line 197: if not next_round_winners
NoSurvivors(winners) == winners = << >>

\* Variant of line 204: the comparison looks for a pool that grew.
IsStalemate_Grew(new_count, previous_winner_count) ==
    new_count > previous_winner_count /\ new_count > 1

\* line 204
IsStalemate(new_count, previous_winner_count) ==
    new_count = previous_winner_count /\ new_count > 1

\* Variants of lines 204-208: the counter is set instead of incremented;
\* the counter is not reset by a round that is no stalemate.
NextStalemateCounter_Set(counter, new_count, previous_winner_count) ==
    IF new_count = previous_winner_count /\ new_count > 1 THEN 1 ELSE 0
NextStalemateCounter_NoReset(counter, new_count, previous_winner_count) ==
    IF new_count = previous_winner_count /\ new_count > 1 THEN counter + 1 ELSE counter

\* lines 204-208
NextStalemateCounter(counter, new_count, previous_winner_count) ==
    IF IsStalemate(new_count, previous_winner_count) THEN counter + 1 ELSE 0

\* Variant of line 210: "stalemate_counter > 2".
MustForce_Late(counter) == counter > ForcedChoiceAt

\* line 210
MustForce(counter) == counter >= ForcedChoiceAt

\* Variant of line 212: the choice is made among all candidates of the
\* search, survivors or not.
RandomChoice_Any(pool) == Candidates

\* line 212: random.choice(current_winners), every outcome it can have
RandomChoice(pool) == Range(pool)

\* line 217: return current_winners[0] if current_winners else None
ReturnValue(pool) == IF pool # << >> THEN pool[1] ELSE None

\* The judge "approved everything": every label of the collage came back.
ApprovesAll(urls, selected_indices) ==
    (1..Len(urls)) \subseteq Range(selected_indices)

\* ------------------------------------------------------------------ state
\* lines 140-142, for a call on the list urls
Call(urls) ==
    /\ image_urls' = urls
    /\ current_winners' = urls
    /\ round_num' = 1
    /\ stalemate_counter' = 0
    /\ next_round_winners' = << >>
    /\ effective_prompt' = << >>
    /\ i' = 0
    /\ successful_urls' = << >>
    /\ verdict' = << >>
    /\ judged_with' = { }
    /\ pc' = "loop"
    /\ result' = None
    /\ exit_line' = 0
    /\ forced' = FALSE
    /\ render_calls' = 0
    /\ judge_calls' = 0
    /\ batches' = << >>
    /\ approved' = TRUE
    /\ log' = << >>

VlmIdle ==
    /\ vlm_pc = "idle"
    /\ attempt = 0
    /\ response = << >>
    /\ returned = << >>
    /\ vlm_line = 0
    /\ provider_calls = 0
    /\ raised = 0

ScraperIdle ==
    /\ scr_pc = "idle"
    /\ count = 0
    /\ image_elements = << >>
    /\ scraped_urls = << >>
    /\ seen_urls = { }
    /\ first = 0
    /\ scrape_result = << >>
    /\ break_line = 0
    /\ requests_made = 0

DownloadIdle ==
    /\ dl_pc = "idle"
    /\ dl_retries = 0
    /\ dl_attempt = 0
    /\ fetches = << >>
    /\ dl_return = None

LoopIdle ==
    /\ frames = << >>
    /\ running = 1

RequestIdle ==
    /\ handler = "_do_pic_search"
    /\ req_pc = "idle"
    /\ stages = << >>
    /\ messages = << >>
    /\ winner_url = None
    /\ final_image_bytes = None

ComposerIdle ==
    /\ renderer = "create_collage"
    /\ rc_pc = "idle"
    /\ batch_in = << >>
    /\ tasks = << >>
    /\ completion = << >>
    /\ collage = << >>
    /\ included = << >>

\* _process_in_batches is called; select_from_collage and the renderer are
\* not looked into.
Init ==
    /\ VlmIdle
    /\ ComposerIdle
    /\ RequestIdle
    /\ LoopIdle
    /\ ScraperIdle
    /\ DownloadIdle
    /\ image_urls \in Pools
    /\ batch_size \in BatchSizes
    /\ current_winners = image_urls
    /\ round_num = 1
    /\ stalemate_counter = 0
    /\ next_round_winners = << >>
    /\ effective_prompt = << >>
    /\ i = 0
    /\ successful_urls = << >>
    /\ verdict = << >>
    /\ judged_with = { }
    /\ pc = "loop"
    /\ result = None
    /\ exit_line = 0
    /\ forced = FALSE
    /\ render_calls = 0
    /\ judge_calls = 0
    /\ batches = << >>
    /\ approved = TRUE
    /\ log = << >>
    /\ runs = 1
    /\ prev_result = None

\* lines 143-167: the while test succeeds and the round is set up.
EnterRound ==
    /\ UNCHANGED side_vars
    /\ pc = "loop"
    /\ LoopCondition(current_winners)
    /\ round_num <= MaxRounds
    /\ next_round_winners' = << >>
    /\ effective_prompt' = EffectivePrompt(current_winners, stalemate_counter)
    /\ i' = 0
    /\ batches' = << >>
    /\ approved' = TRUE
    /\ judged_with' = { }
    /\ pc' = "batch"
    /\ UNCHANGED << image_urls, batch_size, current_winners, round_num,
                    stalemate_counter, successful_urls, verdict, result, exit_line,
                    forced, render_calls, judge_calls, log, runs, prev_result >>

\* line 143: the while test fails.
ExitLoop ==
    /\ UNCHANGED side_vars
    /\ pc = "loop"
    /\ ~ LoopCondition(current_winners)
    /\ pc' = "ret"
    /\ UNCHANGED << image_urls, batch_size, current_winners, round_num,
                    stalemate_counter, next_round_winners, effective_prompt, i,
                    successful_urls, verdict, judged_with, result, exit_line, forced, render_calls,
                    judge_calls, batches, approved, log, runs, prev_result >>

\* lines 169-178: the next batch is cut and rendered; a batch with nothing
\* rendered is skipped.
RenderBatch ==
    /\ UNCHANGED side_vars
    /\ pc = "batch"
    /\ MoreBatches(current_winners, i)
    /\ LET batch_urls == BatchAt(current_winners, i, batch_size)
       IN  \E ok \in SUBSET (1..Len(batch_urls)) :
             LET rendered == create_collage(batch_urls, ok)
             IN  /\ render_calls' = render_calls + 1
                 /\ batches' = Append(batches, batch_urls)
                 /\ IF RenderFailed(rendered)
                    THEN /\ i' = Continue(current_winners, i, batch_size)
                         /\ approved' = FALSE
                         /\ pc' = "batch"
                         /\ UNCHANGED successful_urls
                    ELSE /\ successful_urls' = rendered.successful_urls
                         /\ approved' = (approved /\ rendered.successful_urls = batch_urls)
                         /\ pc' = "judge"
                         /\ UNCHANGED i
    /\ verdict' = << >>
    /\ current_winners' = PoolAfterSlice(current_winners, i, batch_size)
    /\ UNCHANGED << image_urls, batch_size, round_num,
                    stalemate_counter, next_round_winners, effective_prompt,
                    judged_with, result, exit_line, forced, judge_calls, log, runs,
                    prev_result >>

\* lines 182-195: the judge answers; its labels are mapped to candidates.
JudgeBatch ==
    /\ UNCHANGED side_vars
    /\ pc = "judge"
    /\ \E selected_indices \in Verdicts(Len(successful_urls)) :
         /\ judge_calls' = judge_calls + 1
         /\ next_round_winners' =
                IF selected_indices = << >> THEN next_round_winners
                ELSE next_round_winners \o BatchWinners(selected_indices, successful_urls)
         /\ approved' = (approved /\ ApprovesAll(successful_urls, selected_indices))
         /\ verdict' = selected_indices
    /\ judged_with' = judged_with \cup { effective_prompt }
    /\ i' = IF verdict' = << >>
            THEN Continue(current_winners, i, batch_size)
            ELSE i + batch_size
    /\ pc' = "batch"
    /\ UNCHANGED << image_urls, batch_size, current_winners, round_num,
                    stalemate_counter, effective_prompt, successful_urls, result,
                    exit_line, forced, render_calls, batches, log, runs, prev_result >>

\* What a finished round is remembered by.
RoundRecord(pool, next_pool, before, after, all_approved) ==
    [ size      |-> Len(pool),                 \* len(current_winners) going in
      next_size |-> Len(next_pool),            \* len of the pool it produced
      nodup     |-> NoDup(pool) /\ NoDup(next_pool),
      subset    |-> Range(next_pool) \subseteq Range(pool),
      before    |-> before,                    \* stalemate_counter going in
      after     |-> after,                     \* stalemate_counter coming out
      approved  |-> all_approved ]

\* lines 197-215: the for loop is over; the round is reconciled.
EndRound ==
    /\ UNCHANGED side_vars
    /\ pc = "batch"
    /\ ~ MoreBatches(current_winners, i)
    /\ IF NoSurvivors(next_round_winners)
       THEN \* lines 197-199
            /\ result' = None
            /\ exit_line' = 199
            /\ pc' = "done"
            /\ log' = Append(log, RoundRecord(current_winners, << >>, stalemate_counter,
                                              stalemate_counter, approved))
            /\ UNCHANGED << current_winners, round_num, stalemate_counter, forced >>
       ELSE \E next_pool \in DedupOrders(next_round_winners) :
              LET previous_winner_count == Len(current_winners)
                  counter == NextStalemateCounter(stalemate_counter, Len(next_pool),
                                                  previous_winner_count)
              IN  /\ stalemate_counter' = counter
                  /\ log' = Append(log, RoundRecord(current_winners, next_pool,
                                                    stalemate_counter, counter,
                                                    approved))
                  /\ IF MustForce(counter)
                     THEN \* lines 211-213: random.choice, break
                          /\ \E chosen \in RandomChoice(next_pool) :
                               current_winners' = << chosen >>
                          /\ forced' = TRUE
                          /\ pc' = "ret"
                          /\ UNCHANGED round_num
                     ELSE \* line 215
                          /\ current_winners' = next_pool
                          /\ round_num' = round_num + 1
                          /\ pc' = "loop"
                          /\ UNCHANGED forced
                  /\ UNCHANGED << result, exit_line >>
    /\ verdict' = << >>
    /\ UNCHANGED << image_urls, batch_size, next_round_winners, effective_prompt, i,
                    successful_urls, judged_with, render_calls, judge_calls,
                    batches, approved, runs, prev_result >>

\* line 217
Return ==
    /\ UNCHANGED side_vars
    /\ pc = "ret"
    /\ result' = ReturnValue(current_winners)
    /\ exit_line' = 217
    /\ pc' = "done"
    /\ UNCHANGED << image_urls, batch_size, current_winners, round_num,
                    stalemate_counter, next_round_winners, effective_prompt, i,
                    successful_urls, verdict, judged_with, forced, render_calls, judge_calls, batches,
                    approved, log, runs, prev_result >>

\* The tournament is called again on the candidate it returned.
Rerun ==
    /\ UNCHANGED side_vars
    /\ pc = "done"
    /\ result # None
    /\ runs < MaxRuns
    /\ Call(<< result >>)
    /\ runs' = runs + 1
    /\ prev_result' = result
    /\ UNCHANGED batch_size

Next ==
    \/ EnterRound
    \/ ExitLoop
    \/ RenderBatch
    \/ JudgeBatch
    \/ EndRound
    \/ Return
    \/ Rerun

Spec == Init /\ [][Next]_vars

\* Every call the plugin awaits returns, and the event loop resumes the
\* coroutine: a step that is possible is eventually taken.
FairSpec == Spec /\ WF_vars(Next)

\* ================================================================ properties
Done == pc = "done"
LastRound == log[Len(log)]
Unchanged(rec) == rec.next_size = rec.size      \* the round kept the pool's size
Shrunk(rec) == rec.next_size < rec.size

TypeOK ==
    /\ image_urls \in Seq(Candidates) /\ current_winners \in Seq(Candidates)
    /\ next_round_winners \in Seq(Candidates) /\ successful_urls \in Seq(Candidates)
    /\ batch_size \in BatchSizes /\ round_num \in 1..(MaxRounds + 1)
    /\ stalemate_counter \in 0..ForcedChoiceAt
    /\ pc \in { "loop", "batch", "judge", "ret", "done" }
    /\ result \in Candidates \cup { None } /\ exit_line \in { 0, 199, 217 }
    /\ forced \in BOOLEAN /\ approved \in BOOLEAN /\ runs \in 1..MaxRuns

\* C1. Termination: under every behaviour of the renderer and the judge in
\* which each call returns, a tournament that has not returned eventually
\* returns, through one of its two return statements, a winner or None.
C1_Termination ==
    (pc # "done") ~> (Done /\ exit_line \in { 199, 217 }
                           /\ result \in Candidates \cup { None })

\* A call that went through several rounds, stalemates among them, has returned.
C1_Witness ==
    Done /\ Len(log) >= 3 /\ \E r \in 1..Len(log) : Unchanged(log[r])

\* C2. Two rounds in sequence in which every batch renders whole and the
\* judge returns every label: each leaves the pool's size as it was, the
\* second one brings stalemate_counter to 2, no third round runs, and the
\* call ends with a candidate picked by random.choice.
C2_TwoApprovingRounds ==
    /\ \A r \in 1..Len(log) : log[r].approved => Unchanged(log[r])
    /\ \A r \in 1..(Len(log) - 1) :
         (log[r].approved /\ log[r + 1].approved) =>
            /\ log[r].after = 1
            /\ log[r + 1].after = 2
            /\ r + 1 = Len(log)
            /\ forced
            /\ pc \in { "ret", "done" }
            /\ Len(current_winners) = 1
            /\ Done => (exit_line = 217 /\ result = current_winners[1])

C2_Witness ==
    /\ Done /\ forced /\ result \in Candidates
    /\ Len(log) >= 2 /\ LastRound.approved /\ log[Len(log) - 1].approved

\* C3 as stated: the number of rounds of one tournament stays within a small
\* constant that does not depend on the pool; the stalemate policy names one
\* plain round, one escalated round and the round that forces the choice.
\* (Whatever the constant, a pool of more than constant / 2 + 1 candidates
\* exceeds it: see C3_Witness.)
C3_ConstantRoundBound == Len(log) <= ForcedChoiceAt + 1

\* The most rounds a tournament on n candidates can run.
RoundBound(n) == IF n >= 2 THEN 2 * (n - 1) ELSE 0

\* C3, amended. A tournament on N >= 2 candidates runs at most 2 * (N - 1)
\* rounds, and none on fewer: no more than two rounds in a row leave the
\* pool's size unchanged, and every other round shrinks the pool.
C3_RoundBound ==
    /\ Len(log) <= RoundBound(Len(image_urls))
    /\ round_num <= RoundBound(Len(image_urls)) + 1
    /\ \A r \in 1..(Len(log) - 2) :
         ~ (Unchanged(log[r]) /\ Unchanged(log[r + 1]) /\ Unchanged(log[r + 2]))

\* The bound is attained, by a pool of more than two candidates: more rounds
\* than ForcedChoiceAt + 1.
C3_Witness ==
    /\ Done /\ Len(image_urls) >= 3
    /\ Len(log) = RoundBound(Len(image_urls))
    /\ Len(log) > ForcedChoiceAt + 1

\* C4. A call on a list of one candidate returns that candidate and calls
\* neither the renderer nor the judge; so does a second call on the candidate
\* a call returned.
C4_SingleCandidate ==
    /\ Len(image_urls) = 1 =>
         /\ render_calls = 0 /\ judge_calls = 0 /\ log = << >>
         /\ pc \in { "loop", "ret", "done" }
         /\ Done => (result = image_urls[1] /\ exit_line = 217)
    /\ (runs > 1) => (Len(image_urls) = 1 /\ image_urls[1] = prev_result)
    /\ (runs > 1 /\ Done) => result = prev_result

C4_Witness ==
    runs > 1 /\ Done /\ result = prev_result /\ render_calls = 0 /\ judge_calls = 0

\* The for loop of a round is over and nothing survived.
RoundEndsEmpty ==
    pc = "batch" /\ ~ MoreBatches(current_winners, i) /\ next_round_winners = << >>

\* C5. A round whose accumulated survivors are empty ends the tournament
\* there: the call returns None from line 199, and no round, render or judge
\* call follows.
C5_NoSurvivors ==
    [][ /\ RoundEndsEmpty =>
            /\ pc' = "done" /\ result' = None /\ exit_line' = 199
            /\ render_calls' = render_calls /\ judge_calls' = judge_calls
            /\ round_num' = round_num /\ current_winners' = current_winners
        /\ exit_line # 199 ]_vars

\* Every render of a round of two batches or more failed.
C5_Witness ==
    /\ Done /\ exit_line = 199 /\ result = None
    /\ render_calls >= 2 /\ judge_calls = 0 /\ LastRound.next_size = 0

\* The reasons a failed tournament is to be reported with.
FailureTags == { "NoSurvivors", "NoWinner" }

\* C6. What the caller sees of a finished call is a single winning candidate
\* or a failure that carries its reason, NoSurvivors or NoWinner.
C6_TaggedOutcome == Done => result \in Candidates \cup FailureTags

\* C7. An empty pool at the while test (only the empty initial list gets
\* there) ends the call at line 217 with None, which the caller takes for a
\* failure; no round is run and neither collaborator is called. A call that
\* returns from line 217 returns None only then.
C7_EmptyPool ==
    /\ current_winners = << >> =>
         /\ image_urls = << >>
         /\ pc \in { "loop", "ret", "done" }
         /\ render_calls = 0 /\ judge_calls = 0 /\ log = << >>
         /\ Done => (result = None /\ exit_line = 217)
    /\ (Done /\ exit_line = 217) => (result = None <=> current_winners = << >>)

C7_Witness ==
    Done /\ image_urls = << >> /\ result = None /\ exit_line = 217 /\ render_calls = 0

RECURSIVE Flatten(_)
Flatten(seqs) ==
    IF seqs = << >> THEN << >>
    ELSE Flatten(SubSeq(seqs, 1, Len(seqs) - 1)) \o seqs[Len(seqs)]

CeilDiv(n, d) == (n + d - 1) \div d

IsPartition(bs, pool, size) ==
    /\ Len(bs) = CeilDiv(Len(pool), size)
    /\ Flatten(bs) = pool
    /\ \A k \in 1..Len(bs) :
         /\ Len(bs[k]) >= 1 /\ Len(bs[k]) <= size
         /\ k < Len(bs) => Len(bs[k]) = size

\* lines 169-170: every batch the for loop cuts out of a pool.
Offsets(n, size) == { o \in 0..(n - 1) : o % size = 0 }

BatchesOf(pool, size) ==
    [ k \in 1..Cardinality(Offsets(Len(pool), size)) |-> BatchAt(pool, (k - 1) * size, size) ]

\* C8. The batches of a round are ceil(N / B) contiguous slices of the pool in
\* pool order, each of B candidates but possibly the last, none empty or
\* longer than B, and together they are the pool; the empty pool has none.
C8_Partition ==
    /\ IsPartition(BatchesOf(image_urls, batch_size), image_urls, batch_size)
    /\ IsPartition(BatchesOf(current_winners, batch_size), current_winners, batch_size)
    /\ pc \in { "batch", "judge" } =>
         /\ batches = SubSeq(BatchesOf(current_winners, batch_size), 1, Len(batches))
         /\ Len(batches) * batch_size = (IF pc = "judge" THEN i + batch_size ELSE i)
         /\ render_calls >= Len(batches)
    /\ (pc = "batch" /\ ~ MoreBatches(current_winners, i)) =>
         IsPartition(batches, current_winners, batch_size)

\* A round is over whose last batch is shorter than batch_size.
C8_Witness ==
    /\ pc = "batch" /\ ~ MoreBatches(current_winners, i)
    /\ Len(batches) >= 2 /\ Len(batches[Len(batches)]) < batch_size
    /\ Len(batches[1]) = batch_size

\* C9. The pool of every round that runs is non-empty and duplicate-free; the
\* pool a round produces is a subset of the pool it was given, so no larger;
\* it has the same size only when the judge kept every candidate, and that
\* round is counted as a stalemate.
C9_PoolInvariant ==
    /\ pc \in { "batch", "judge" } =>
         (current_winners # << >> /\ NoDup(current_winners))
    /\ NoDup(current_winners)
    /\ Range(current_winners) \subseteq Range(image_urls)
    /\ \A r \in 1..Len(log) :
         /\ log[r].size >= 2
         /\ log[r].nodup
         /\ log[r].subset
         /\ log[r].next_size <= log[r].size
         /\ Unchanged(log[r]) => (log[r].approved /\ log[r].after = log[r].before + 1)
         /\ r < Len(log) => log[r + 1].size = log[r].next_size

\* A third round is running, after a round that kept the pool and a round
\* that shrank it.
C9_Witness ==
    /\ pc = "judge" /\ Len(log) >= 2
    /\ \E r \in 1..Len(log) : Unchanged(log[r])
    /\ \E r \in 1..Len(log) : Shrunk(log[r])

\* The round did not end at line 199.
Produced(rec) == rec.next_size > 0

\* C10. A round that produces a pool leaves stalemate_counter one higher when
\* the new pool has the size of the old one and more than one candidate, and
\* leaves it 0 otherwise. So random.choice is taken only after two such
\* rounds in a row, and a shrinking round between two of them prevents it.
C10_StalemateCounter ==
    /\ \A r \in 1..Len(log) :
         /\ log[r].before = (IF r = 1 THEN 0 ELSE log[r - 1].after)
         /\ Produced(log[r]) =>
              log[r].after = (IF log[r].next_size = log[r].size /\ log[r].next_size > 1
                              THEN log[r].before + 1 ELSE 0)
    /\ (log # << >> /\ Produced(LastRound) /\ pc # "done")
          => stalemate_counter = LastRound.after
    /\ forced <=> (log # << >> /\ LastRound.after >= ForcedChoiceAt)
    /\ forced => /\ Len(log) >= 2
                 /\ Unchanged(LastRound) /\ Unchanged(log[Len(log) - 1])
    /\ \A r \in 1..(Len(log) - 2) :
         (Unchanged(log[r]) /\ Shrunk(log[r + 1]) /\ Unchanged(log[r + 2]))
            => (log[r + 2].after = 1 /\ (r + 2 = Len(log) => ~ forced))

\* Stalemate, shrinking round, stalemate: the tournament goes on.
C10_Witness ==
    /\ Len(log) = 3 /\ pc = "loop" /\ ~ forced /\ stalemate_counter = 1
    /\ Unchanged(log[1]) /\ Shrunk(log[2]) /\ Unchanged(log[3])

\* The for loop of a round is over and line 210 is about to force the choice.
AboutToForce ==
    /\ pc = "batch" /\ ~ MoreBatches(current_winners, i)
    /\ next_round_winners # << >>
    /\ NextStalemateCounter(stalemate_counter, Cardinality(Range(next_round_winners)),
                            Len(current_winners)) >= ForcedChoiceAt

\* C11. When stalemate_counter is 2 or more after a round, the call ends at
\* once with one candidate of that round's next pool: every member of the
\* pool can be the one, nothing else can, and no further round is run.
C11_ForcedResolution ==
    /\ AboutToForce =>
         \A c \in Range(next_round_winners) :
            ENABLED (EndRound /\ current_winners' = << c >> /\ pc' = "ret")
    /\ (log # << >> /\ LastRound.after >= ForcedChoiceAt) =>
         /\ forced
         /\ pc \in { "ret", "done" }
         /\ Len(current_winners) = 1
         /\ current_winners[1] \in Range(next_round_winners)
         /\ round_num = Len(log)
         /\ Done => (result = current_winners[1] /\ exit_line = 217)
    /\ forced => (log # << >> /\ LastRound.after >= ForcedChoiceAt)

\* The forced choice was taken and it is not the first candidate of the list.
C11_Witness ==
    /\ Done /\ forced /\ result \in Range(next_round_winners)
    /\ result # image_urls[1]

InRound == pc \in { "batch", "judge" }
HasFinalRound(prompt) == "final_round" \in Range(prompt)
HasForceChoice(prompt) == "force_choice" \in Range(prompt)

\* C12. The instruction of a round carries the final-round directive exactly
\* when the pool is no larger than batch_size, that is, when one batch
\* decides the round.
C12_FinalRoundIffSingleBatch ==
    InRound => (HasFinalRound(effective_prompt) <=> Len(current_winners) <= batch_size)

\* The instruction made of the base instruction and the directives asked for,
\* the final-round directive first.
Layered(final, force) ==
    << "description" >>
    \o (IF final THEN << "final_round" >> ELSE << >>)
    \o (IF force THEN << "force_choice" >> ELSE << >>)

\* C13. The instruction of a round carries the force-a-choice directive
\* exactly when stalemate_counter > 0, after the final-round directive when
\* the round is decided by one batch (len(current_pool) <= batch_size), and
\* is the base instruction alone when neither holds; every batch of the round
\* is judged with that same instruction.
C13_PromptLayers ==
    InRound =>
        /\ HasForceChoice(effective_prompt) <=> stalemate_counter > 0
        /\ effective_prompt = Layered(Len(current_winners) <= batch_size,
                                      stalemate_counter > 0)
        /\ judged_with \subseteq { effective_prompt }

\* What remains of C13 when the final-round directive is taken as line 152
\* decides it.
PromptLayersAsCoded ==
    InRound =>
        /\ HasForceChoice(effective_prompt) <=> stalemate_counter > 0
        /\ (stalemate_counter > 0) <=> (log # << >> /\ Unchanged(LastRound))
        /\ effective_prompt = Layered(Len(current_winners) <= FinalRoundThreshold,
                                      stalemate_counter > 0)
        /\ judged_with \subseteq { effective_prompt }

\* The candidates a verdict names: label L is the L-th entry of the rendered
\* list when 1 <= L <= its length, and nothing otherwise.
RECURSIVE Survivors(_, _)
Survivors(labels, rendered) ==
    IF labels = << >> THEN << >>
    ELSE (IF 1 <= Head(labels) /\ Head(labels) <= Len(rendered)
          THEN << rendered[Head(labels)] >> ELSE << >>)
         \o Survivors(Tail(labels), rendered)

\* C14. Judging a batch adds to the round's survivors exactly the candidates
\* its verdict names by 1-based label in the rendered list; labels outside
\* 1..len(rendered list) add nothing and the step still completes.
C14_LabelMapping ==
    [][ pc = "judge" =>
            /\ pc' = "batch"
            /\ next_round_winners' =
                   next_round_winners \o Survivors(verdict', successful_urls) ]_vars

\* A batch <<u1, u2>> of which only u2 was rendered, judged [1, 2]: label 1
\* is u2 (not u1, the first of the batch) and label 2 is dropped.
C14_Witness ==
    /\ pc = "batch" /\ i = batch_size
    /\ batches = << << Url(1), Url(2) >> >>
    /\ successful_urls = << Url(2) >>
    /\ verdict = << 1, 2 >>
    /\ next_round_winners = << Url(2) >>

\* The step is a render that included no candidate.
RenderFails == pc = "batch" /\ pc' = "batch" /\ render_calls' = render_calls + 1

\* The step is a judge call that selected nothing.
JudgeSelectsNothing == pc = "judge" /\ verdict' = << >>

\* C15. A batch whose render includes no candidate, or whose judge call
\* returns nothing, adds no survivor and the round goes on with the next
\* batch: the round is left only after every batch of the pool was taken, and
\* the survivors of the other batches are the next pool.
C15_BatchLocalFailure ==
    [][ InRound =>
          /\ (RenderFails \/ JudgeSelectsNothing) =>
                /\ next_round_winners' = next_round_winners
                /\ i' = i + batch_size
                /\ pc' = "batch"
                /\ result' = result
          /\ RenderFails => judge_calls' = judge_calls
          /\ \E tail \in SeqsUpTo(Candidates, MaxVerdict) :
                next_round_winners' = next_round_winners \o tail
          /\ pc' \notin { "batch", "judge" } =>
                /\ batches = BatchesOf(current_winners, batch_size)
                /\ pc' = "loop" => Range(current_winners') = Range(next_round_winners)
                /\ pc' = "done" => next_round_winners = << >> ]_vars

\* Round 1 on three candidates in batches of two: the first batch was not
\* rendered, the second was judged, and its survivor is the next pool.
C15_Witness ==
    /\ pc = "loop" /\ round_num = 2 /\ batch_size = 2
    /\ batches = << << Url(1), Url(2) >>, << Url(3) >> >>
    /\ render_calls = 2 /\ judge_calls = 1
    /\ current_winners = << Url(3) >>

\* The round that is over can hand the pool p to the next round.
CanContinueWith(p) == ENABLED (EndRound /\ pc' = "loop" /\ current_winners' = p)

\* C16. With the renderer and the judge answering alike, the pool of the next
\* round and its order are determined: a finished round that is not resolved
\* by the forced random choice has one possible next pool.
C16_DeterminedOrder ==
    \A p, q \in DedupOrders_Keep(next_round_winners) \cup DedupOrders(next_round_winners) :
        (CanContinueWith(p) /\ CanContinueWith(q)) => p = q

\* ------------------------------------------------- src/vlm.py: the judge call
\* line 45
retries == 3

\* The numeric labels a response can mention.
Labels == 1..MaxBatch

\* The value of the key "selected_indices" in a JSON object of the response:
\* absent, a number (not a list), or a list of elements.  An element is
\*   "int"  the number n            "str"  the string "n"
\*   "neg"  the number -n           "bad"  true, null, 2.5 or "two"
\*   "sup"  a string such as the superscript two, for which str.isdigit() is
\*          true and int() raises ValueError
Element(k, n) == [ k |-> k, n |-> n ]
Elements ==
    { Element("int", n) : n \in Labels }
    \cup { Element("str", 1), Element("neg", 1), Element("bad", 0), Element("sup", 0) }
Selected(kind, n, elems) == [ kind |-> kind, n |-> n, elems |-> elems ]
Absent == Selected("absent", 0, << >>)
SelectedValues ==
    { Absent }
    \cup { Selected("scalar", n, << >>) : n \in Labels }
    \cup { Selected("list", 0, elems) : elems \in SeqsUpTo(Elements, MaxVerdict) }

\* The provider's text as tokens: "text" has no digit and no brace, "num" is
\* a run of digits, "open" and "close" are a brace on its own, "object" is a
\* well-formed JSON object without inner braces, with the keys "count"
\* (other # 0, written first) and "selected_indices".
Token(t, n, selected, other) == [ t |-> t, n |-> n, selected |-> selected, other |-> other ]
PlainTokens ==
    { Token(t, 0, Absent, 0) : t \in { "text", "open", "close" } }
    \cup { Token("num", n, Absent, 0) : n \in Labels }
ObjectTokens ==
    { Token("object", 0, selected, other) :
        selected \in SelectedValues, other \in { 0 } \cup Labels }
AtMostOne(S) == { << >> } \cup { << x >> : x \in S }

\* get_plain_text() of line 49: at most one object, a token before and after.
Responses ==
    { before \o object \o after :
        before \in AtMostOne(PlainTokens), object \in AtMostOne(ObjectTokens),
        after \in AtMostOne(PlainTokens) }

HasOpen(token) == token.t \in { "open", "object" }
HasClose(token) == token.t \in { "close", "object" }

\* line 55: re.search(r'\{.*\}', result, re.DOTALL), greedy: from the first
\* "{" to the last "}" behind it; << >> is no match.
json_match(text) ==
    LET opens == { k \in 1..Len(text) : HasOpen(text[k]) }
        start == CHOOSE a \in opens : \A b \in opens : a <= b
        closes == { k \in 1..Len(text) :
                      /\ HasClose(text[k])
                      /\ k >= start
                      /\ k = start => text[k].t = "object" }
        stop == CHOOSE a \in closes : \A b \in closes : a >= b
    IN  IF opens = { } \/ closes = { } THEN << >> ELSE SubSeq(text, start, stop)

\* Variant of line 58: what follows the first JSON value is ignored.
JSONDecodeError_Lenient(json_str) == json_str[1].t # "object"

\* line 58: json.loads(json_str) raises JSONDecodeError unless the text is
\* one JSON value.
JSONDecodeError(json_str) == ~ (Len(json_str) = 1 /\ json_str[1].t = "object")

\* line 60: isinstance(selected, list)
isinstance_list(selected) == selected.kind = "list"

\* lines 55-60: the return of line 63 is reached.
UsesRecord(text) ==
    LET json_str == json_match(text)
    IN  /\ json_str # << >>
        /\ ~ JSONDecodeError(json_str)
        /\ isinstance_list(json_str[1].selected)

\* line 63: isinstance(n, (int, str)) and str(n).isdigit()
isdigit(n) == n.k \in { "int", "str", "sup" }

\* line 63: int(n) raises ValueError
ValueError(n) == n.k = "sup"

\* line 72: re.findall(r'\d+', result), the digits of one token
RECURSIVE ElementDigits(_)
ElementDigits(elems) ==
    IF elems = << >> THEN << >>
    ELSE (IF Head(elems).k \in { "int", "str", "neg" } THEN << Head(elems).n >> ELSE << >>)
         \o ElementDigits(Tail(elems))
TokenDigits(token) ==
    CASE token.t = "num" -> << token.n >>
      [] token.t = "object" ->
            (IF token.other # 0 THEN << token.other >> ELSE << >>)
            \o (CASE token.selected.kind = "scalar" -> << token.selected.n >>
                  [] token.selected.kind = "list" -> ElementDigits(token.selected.elems)
                  [] OTHER -> << >>)
      [] OTHER -> << >>

\* line 72 and 79: re.findall(r'\d+', result), each as int
RECURSIVE findall(_)
findall(text) ==
    IF text = << >> THEN << >>
    ELSE TokenDigits(Head(text)) \o findall(Tail(text))

\* Variant of lines 73-76: an empty selection is raised as an error.
Raises_OnEmpty(text) ==
    IF UsesRecord(text)
    THEN \/ \E k \in 1..Len(json_match(text)[1].selected.elems) :
              ValueError(json_match(text)[1].selected.elems[k])
         \/ SelectSeq(json_match(text)[1].selected.elems, isdigit) = << >>
    ELSE findall(text) = << >>

\* lines 52-79: the attempt ends in the except clause of line 81 although the
\* provider answered.
Raises(text) ==
    /\ UsesRecord(text)
    /\ \E k \in 1..Len(json_match(text)[1].selected.elems) :
          LET n == json_match(text)[1].selected.elems[k]
          IN  isdigit(n) /\ ValueError(n)

\* lines 63, 76, 79: the list returned for a response that does not raise
Parsed(text) ==
    IF UsesRecord(text)
    THEN LET kept == SelectSeq(json_match(text)[1].selected.elems, isdigit)
         IN  [ k \in 1..Len(kept) |-> kept[k].n ]
    ELSE findall(text)

\* lines 63, 76, 79: the return statement taken
ReturnLine(text) ==
    IF UsesRecord(text) THEN 63
    ELSE IF findall(text) = << >> THEN 76 ELSE 79

\* Variant of line 46: one attempt only.
MoreAttempts_Once(n) == n < 1

\* line 46: for attempt in range(retries)
MoreAttempts(n) == n < retries

\* lines 81-84: the except clause; the loop goes on with the next attempt.
Except ==
    /\ raised' = raised + 1
    /\ attempt' = attempt + 1
    /\ response' = << >>
    /\ vlm_pc' = "call"
    /\ UNCHANGED << returned, vlm_line >>

\* lines 48-49: the provider is called; it answers or raises.
TextChat ==
    /\ UNCHANGED vlm_rest
    /\ vlm_pc = "call"
    /\ MoreAttempts(attempt)
    /\ provider_calls' = provider_calls + 1
    /\ \/ Except
       \/ /\ \E text \in Responses : response' = text
          /\ vlm_pc' = "parse"
          /\ UNCHANGED << attempt, returned, vlm_line, raised >>
    /\ UNCHANGED engine_vars

\* lines 52-79: the answer is parsed.
ParseResponse ==
    /\ UNCHANGED vlm_rest
    /\ vlm_pc = "parse"
    /\ IF Raises(response)
       THEN Except
       ELSE /\ returned' = Parsed(response)
            /\ vlm_line' = ReturnLine(response)
            /\ vlm_pc' = "returned"
            /\ UNCHANGED << attempt, response, raised >>
    /\ UNCHANGED << engine_vars, provider_calls >>

\* lines 86-87: every attempt raised.
GiveUp ==
    /\ UNCHANGED vlm_rest
    /\ vlm_pc = "call"
    /\ ~ MoreAttempts(attempt)
    /\ returned' = << >>
    /\ vlm_line' = 87
    /\ vlm_pc' = "returned"
    /\ UNCHANGED << engine_vars, attempt, response, provider_calls, raised >>

\* select_from_collage is called for a collage.
VlmInit ==
    /\ ComposerIdle
    /\ RequestIdle
    /\ LoopIdle
    /\ ScraperIdle
    /\ DownloadIdle
    /\ vlm_pc = "call"
    /\ attempt = 0
    /\ response = << >>
    /\ returned = << >>
    /\ vlm_line = 0
    /\ provider_calls = 0
    /\ raised = 0
    \* the engine is at line 182, in round 1, with the collage of its first batch
    /\ image_urls = << Url(1), Url(2) >> /\ batch_size = MaxBatch
    /\ current_winners = image_urls /\ round_num = 1 /\ stalemate_counter = 0
    /\ next_round_winners = << >> /\ i = 0
    /\ effective_prompt = EffectivePrompt(current_winners, stalemate_counter)
    /\ successful_urls = image_urls /\ verdict = << >> /\ judged_with = { }
    /\ pc = "judge" /\ result = None /\ exit_line = 0 /\ forced = FALSE
    /\ render_calls = 1 /\ judge_calls = 0 /\ batches = << image_urls >>
    /\ approved = TRUE /\ log = << >> /\ runs = 1 /\ prev_result = None

VlmNext ==
    \/ TextChat
    \/ ParseResponse
    \/ GiveUp

VlmSpec == VlmInit /\ [][VlmNext]_vars

\* ------------------------------------------------------------ the renderers
\* The lists a renderer is called with.
RenderBatches == Pools \ { << >> }

\* composer.py:24-55 and 79, image_composer.py:31-65: what becomes of one
\* candidate: fetched and decoded, fetched but not an image, not fetched.
Outcomes == { "ok", "undecodable", "failed" }

\* The tiles of a composite: tile t shows the t-th image and is labelled
\* str(t) (composer.py:97-106, image_composer.py:117-139).
Tiles(urls) == [ t \in 1..Len(urls) |-> [ label |-> t, image |-> urls[t] ] ]

\* One download (and, in the reference variant, decode) completes.
Download ==
    /\ rc_pc = "download"
    /\ \E k \in 1..Len(batch_in) :
         /\ tasks[k] = "pending"
         /\ \E outcome \in Outcomes : tasks' = [ tasks EXCEPT ![k] = outcome ]
         /\ completion' = Append(completion, k)
    /\ UNCHANGED << engine_vars, composer_rest, renderer, rc_pc, batch_in, collage, included >>

AllCompleted == \A k \in 1..Len(batch_in) : tasks[k] # "pending"

\* composer.py:118-137: asyncio.gather returns the results in the order of
\* image_urls; lines 121 and 76-85 filter them in that order.
GatherAndCompose ==
    /\ rc_pc = "download"
    /\ renderer = "create_collage"
    /\ AllCompleted
    /\ LET rendered == create_collage(batch_in, { k \in 1..Len(batch_in) : tasks[k] = "ok" })
       IN  /\ collage' = rendered.collage_bytes
           /\ included' = rendered.successful_urls
    /\ rc_pc' = "returned"
    /\ UNCHANGED << engine_vars, composer_rest, renderer, batch_in, tasks, completion >>

\* image_composer.py:95-100: the futures are taken as they complete.
AsCompleted(urls, order, done) ==
    LET ok == SelectSeq(order, LAMBDA k : done[k] = "ok")
    IN  [ t \in 1..Len(ok) |-> urls[ok[t]] ]

\* image_composer.py:86-149
CollectAndCompose ==
    /\ rc_pc = "download"
    /\ renderer = "create_image_collage"
    /\ AllCompleted
    /\ LET successful == AsCompleted(batch_in, completion, tasks)
       IN  /\ collage' = Tiles(successful)
           /\ included' = successful
    /\ rc_pc' = "returned"
    /\ UNCHANGED << engine_vars, composer_rest, renderer, batch_in, tasks, completion >>

\* A renderer is called with a batch while the engine is at line 175.
ComposerInit ==
    /\ VlmIdle
    /\ RequestIdle
    /\ LoopIdle
    /\ ScraperIdle
    /\ DownloadIdle
    /\ renderer \in { "create_collage", "create_image_collage" }
    /\ rc_pc = "download"
    /\ batch_in \in RenderBatches
    /\ tasks = [ k \in 1..Len(batch_in) |-> "pending" ]
    /\ completion = << >>
    /\ collage = << >>
    /\ included = << >>
    /\ image_urls = batch_in /\ batch_size = Len(batch_in)
    /\ current_winners = image_urls /\ round_num = 1 /\ stalemate_counter = 0
    /\ next_round_winners = << >> /\ i = 0
    /\ effective_prompt = EffectivePrompt(current_winners, stalemate_counter)
    /\ successful_urls = << >> /\ verdict = << >> /\ judged_with = { }
    /\ pc = "batch" /\ result = None /\ exit_line = 0 /\ forced = FALSE
    /\ render_calls = 0 /\ judge_calls = 0 /\ batches = << >>
    /\ approved = TRUE /\ log = << >> /\ runs = 1 /\ prev_result = None

ComposerNext ==
    \/ Download
    \/ GatherAndCompose
    \/ CollectAndCompose

ComposerSpec == ComposerInit /\ [][ComposerNext]_vars

\* ------------------------------------------- src/main.py: the two handlers
Handlers == { "pic_search_tool", "_do_pic_search" }

\* What a handler returns or yields: the text it stands for and the URL the
\* text holds (None: none).
Message(kind, url) == [ kind |-> kind, url |-> url ]

\* lines 65 and 104
NoProviderMessage == Message("no_provider", None)
\* line 107, yielded by _do_pic_search only
ReceivedMessage == Message("received", None)
\* lines 74 and 113
ScrapeEmptyMessage == Message("scrape_empty", None)
\* lines 81 and 121
NoResultMessage == Message("no_result", None)
\* lines 90 and 127-130
DeliveredMessage == Message("delivered", None)
\* lines 96 and 136
ErrorMessage == Message("error", None)

\* Variant of lines 92 and 132: the text of lines 81 and 121 is reused.
DeliveryFailureMessage_AsNoResult(url) == Message("no_result", None)

\* lines 92 and 132: the text ends with winner_url
DeliveryFailureMessage(url) == Message("delivery_failure", url)

\* lines 73 and 112: not image_urls
NotUrls(urls) == urls = << >>

\* Variant of lines 80 and 120: the return value is not tested.
NotWinner_Never(url) == FALSE

\* lines 80 and 120: not winner_url
NotWinner(url) == url = None

\* The handler says one more thing and is over.
EndWith(message) ==
    /\ messages' = Append(messages, message)
    /\ req_pc' = "ended"

\* lines 63-65, 102-107: _get_vlm_provider() finds a provider or not.
GetProvider ==
    /\ req_pc = "provider"
    /\ \E found \in BOOLEAN :
         IF ~ found
         THEN EndWith(NoProviderMessage)
         ELSE /\ req_pc' = "scrape"
              /\ messages' = IF handler = "_do_pic_search"
                             THEN Append(messages, ReceivedMessage)
                             ELSE messages
    /\ UNCHANGED << engine_vars, request_rest, handler, stages,
                    winner_url, final_image_bytes >>

\* lines 72-79, 111-119: the scrape returns; on a non-empty list the
\* tournament is called with it.
Scrape ==
    /\ req_pc = "scrape"
    /\ \E urls \in Pools :
         IF NotUrls(urls)
         THEN /\ EndWith(ScrapeEmptyMessage)
              /\ stages' = Append(stages, "scrape")
              /\ UNCHANGED engine_vars
         ELSE /\ Call(urls)
              /\ stages' = stages \o << "scrape", "tournament" >>
              /\ req_pc' = "tournament"
              /\ UNCHANGED << batch_size, runs, prev_result, messages >>
    /\ UNCHANGED << request_rest, handler, winner_url, final_image_bytes >>

\* lines 79-81, 119-122: the tournament returned.
TournamentReturns ==
    /\ req_pc = "tournament"
    /\ pc = "done"
    /\ winner_url' = result
    /\ IF NotWinner(result)
       THEN EndWith(NoResultMessage)
       ELSE req_pc' = "finalize" /\ UNCHANGED messages
    /\ UNCHANGED << engine_vars, request_rest, handler, stages,
                    final_image_bytes >>

\* lines 84-92, 125-132: the winner is fetched again and sent, or not.
Finalize ==
    /\ req_pc = "finalize"
    /\ stages' = Append(stages, "finalizer")
    /\ \E bytes \in { "bytes", None } :
         /\ final_image_bytes' = bytes
         /\ IF bytes # None
            THEN EndWith(DeliveredMessage)
            ELSE EndWith(DeliveryFailureMessage(winner_url))
    /\ UNCHANGED << engine_vars, request_rest, handler, winner_url >>

\* lines 94-96, 134-136: create_collage raised something it does not catch
\* (composer.py:83 catches IOError and UnidentifiedImageError only).
UnexpectedError ==
    /\ req_pc = "tournament"
    /\ pc = "batch"
    /\ MoreBatches(current_winners, i)
    /\ EndWith(ErrorMessage)
    /\ UNCHANGED << engine_vars, request_rest, handler, stages,
                    winner_url, final_image_bytes >>

\* A request arrives at one of the handlers; no tournament is running.
RequestInit ==
    /\ VlmIdle
    /\ ComposerIdle
    /\ LoopIdle
    /\ ScraperIdle
    /\ DownloadIdle
    /\ handler \in Handlers
    /\ req_pc = "provider"
    /\ stages = << >>
    /\ messages = << >>
    /\ winner_url = None
    /\ final_image_bytes = None
    /\ batch_size = MaxBatch
    /\ image_urls = << >> /\ current_winners = << >>
    /\ round_num = 1 /\ stalemate_counter = 0
    /\ next_round_winners = << >> /\ effective_prompt = << >> /\ i = 0
    /\ successful_urls = << >> /\ verdict = << >> /\ judged_with = { }
    /\ pc = "idle" /\ result = None /\ exit_line = 0 /\ forced = FALSE
    /\ render_calls = 0 /\ judge_calls = 0 /\ batches = << >>
    /\ approved = TRUE /\ log = << >> /\ runs = 1 /\ prev_result = None

RequestNext ==
    \/ GetProvider
    \/ Scrape
    \/ EnterRound
    \/ ExitLoop
    \/ RenderBatch
    \/ JudgeBatch
    \/ EndRound
    \/ Return
    \/ TournamentReturns
    \/ Finalize
    \/ UnexpectedError

RequestSpec == RequestInit /\ [][RequestNext]_vars

\* ------------------------------- two tournaments on one plugin instance
\* The calls that are in flight.
Invocations == { 1, 2 }
Other(k) == 3 - k

\* The locals (and arguments) of _process_in_batches, which live in the
\* coroutine's frame, with what is remembered about the call.  batch_size is
\* not among them: it is self.batch_size (main.py:30), read at lines 169-170.
Snapshot ==
    [ image_urls |-> image_urls,
      current_winners |-> current_winners,
      round_num |-> round_num,
      stalemate_counter |-> stalemate_counter,
      next_round_winners |-> next_round_winners,
      effective_prompt |-> effective_prompt,
      i |-> i,
      successful_urls |-> successful_urls,
      verdict |-> verdict,
      judged_with |-> judged_with,
      pc |-> pc,
      result |-> result,
      exit_line |-> exit_line,
      forced |-> forced,
      render_calls |-> render_calls,
      judge_calls |-> judge_calls,
      batches |-> batches,
      approved |-> approved,
      log |-> log ]

\* Variant: stalemate_counter is kept on the instance, not in the frame.
Resume_CounterOnSelf(frame) ==
    /\ image_urls' = frame.image_urls
    /\ current_winners' = frame.current_winners
    /\ round_num' = frame.round_num
    /\ UNCHANGED stalemate_counter
    /\ next_round_winners' = frame.next_round_winners
    /\ effective_prompt' = frame.effective_prompt
    /\ i' = frame.i
    /\ successful_urls' = frame.successful_urls
    /\ verdict' = frame.verdict
    /\ judged_with' = frame.judged_with
    /\ pc' = frame.pc
    /\ result' = frame.result
    /\ exit_line' = frame.exit_line
    /\ forced' = frame.forced
    /\ render_calls' = frame.render_calls
    /\ judge_calls' = frame.judge_calls
    /\ batches' = frame.batches
    /\ approved' = frame.approved
    /\ log' = frame.log

\* The coroutine goes on with the locals it was suspended with.
Resume(frame) ==
    /\ image_urls' = frame.image_urls
    /\ current_winners' = frame.current_winners
    /\ round_num' = frame.round_num
    /\ stalemate_counter' = frame.stalemate_counter
    /\ next_round_winners' = frame.next_round_winners
    /\ effective_prompt' = frame.effective_prompt
    /\ i' = frame.i
    /\ successful_urls' = frame.successful_urls
    /\ verdict' = frame.verdict
    /\ judged_with' = frame.judged_with
    /\ pc' = frame.pc
    /\ result' = frame.result
    /\ exit_line' = frame.exit_line
    /\ forced' = frame.forced
    /\ render_calls' = frame.render_calls
    /\ judge_calls' = frame.judge_calls
    /\ batches' = frame.batches
    /\ approved' = frame.approved
    /\ log' = frame.log

\* The awaits of _process_in_batches: create_collage (line 175) and
\* select_from_collage (line 182); a call that has not begun to run or has
\* returned can be left as well.
AtSuspensionPoint ==
    \/ pc = "batch" /\ MoreBatches(current_winners, i)
    \/ pc = "judge"
    \/ pc = "loop" /\ round_num = 1
    \/ pc = "done"

\* The event loop suspends the running call at an await and runs the other.
Switch ==
    /\ frames # << >>
    /\ AtSuspensionPoint
    /\ frames[Other(running)].pc # "done"
    /\ running' = Other(running)
    /\ frames' = [ frames EXCEPT ![running] = Snapshot ]
    /\ Resume(frames[Other(running)])
    /\ UNCHANGED << batch_size, runs, prev_result, loop_rest >>

\* The lists the two calls are given: they have a candidate in common.
PairPools == << << Url(1), Url(2) >>, << Url(2), Url(3) >> >>

\* A call as it starts on the list urls.
Started(urls) ==
    [ image_urls |-> urls, current_winners |-> urls, round_num |-> 1,
      stalemate_counter |-> 0, next_round_winners |-> << >>,
      effective_prompt |-> << >>, i |-> 0, successful_urls |-> << >>,
      verdict |-> << >>, judged_with |-> { }, pc |-> "loop", result |-> None,
      exit_line |-> 0, forced |-> FALSE, render_calls |-> 0, judge_calls |-> 0,
      batches |-> << >>, approved |-> TRUE, log |-> << >> ]

\* Two calls have been made; the first is about to run.
PairInit ==
    /\ VlmIdle
    /\ ComposerIdle
    /\ RequestIdle
    /\ ScraperIdle
    /\ DownloadIdle
    /\ batch_size = MaxBatch
    /\ runs = 1 /\ prev_result = None
    /\ running = 1
    /\ frames = [ k \in Invocations |-> Started(PairPools[k]) ]
    /\ image_urls = Started(PairPools[1]).image_urls
    /\ current_winners = Started(PairPools[1]).current_winners
    /\ round_num = Started(PairPools[1]).round_num
    /\ stalemate_counter = Started(PairPools[1]).stalemate_counter
    /\ next_round_winners = Started(PairPools[1]).next_round_winners
    /\ effective_prompt = Started(PairPools[1]).effective_prompt
    /\ i = Started(PairPools[1]).i
    /\ successful_urls = Started(PairPools[1]).successful_urls
    /\ verdict = Started(PairPools[1]).verdict
    /\ judged_with = Started(PairPools[1]).judged_with
    /\ pc = Started(PairPools[1]).pc
    /\ result = Started(PairPools[1]).result
    /\ exit_line = Started(PairPools[1]).exit_line
    /\ forced = Started(PairPools[1]).forced
    /\ render_calls = Started(PairPools[1]).render_calls
    /\ judge_calls = Started(PairPools[1]).judge_calls
    /\ batches = Started(PairPools[1]).batches
    /\ approved = Started(PairPools[1]).approved
    /\ log = Started(PairPools[1]).log

PairNext ==
    \/ EnterRound
    \/ ExitLoop
    \/ RenderBatch
    \/ JudgeBatch
    \/ EndRound
    \/ Return
    \/ Switch

PairSpec == PairInit /\ [][PairNext]_vars

\* ------------------------------------- a tournament on a large first pool
\* 20 candidates in batches of 8: a first pool above the threshold of line
\* 152 that takes three batches, the last one short.
ScenarioPool == FinalRoundThreshold + 4
ScenarioBatch == FinalRoundThreshold \div 2

\* The labels the judge names in round 1: the first or the last tile.
ScenarioLabels(k) == { 1, k }

\* Round 1 of the scenario: every candidate of the batch is rendered.
ScenarioRender ==
    /\ RenderBatch
    /\ round_num = 1 => successful_urls' = BatchAt(current_winners, i, batch_size)

\* Round 1 of the scenario: the judge selects exactly one winner per batch.
ScenarioJudge ==
    /\ JudgeBatch
    /\ round_num = 1 =>
         /\ Len(verdict') = 1
         /\ verdict'[1] \in ScenarioLabels(Len(successful_urls))

ScenarioInit ==
    /\ VlmIdle
    /\ ComposerIdle
    /\ RequestIdle
    /\ LoopIdle
    /\ ScraperIdle
    /\ DownloadIdle
    /\ image_urls = [ k \in 1..ScenarioPool |-> Url(k) ]
    /\ batch_size = ScenarioBatch
    /\ current_winners = image_urls
    /\ round_num = 1
    /\ stalemate_counter = 0
    /\ next_round_winners = << >>
    /\ effective_prompt = << >>
    /\ i = 0
    /\ successful_urls = << >>
    /\ verdict = << >>
    /\ judged_with = { }
    /\ pc = "loop"
    /\ result = None
    /\ exit_line = 0
    /\ forced = FALSE
    /\ render_calls = 0
    /\ judge_calls = 0
    /\ batches = << >>
    /\ approved = TRUE
    /\ log = << >>
    /\ runs = 1
    /\ prev_result = None

ScenarioNext ==
    \/ EnterRound
    \/ ExitLoop
    \/ ScenarioRender
    \/ ScenarioJudge
    \/ EndRound
    \/ Return

ScenarioSpec == ScenarioInit /\ [][ScenarioNext]_vars

\* ------------------------------------------- the candidate source
\* _scrape_images_sync (src/scraper.py 19-87); scrape_images of
\* src/refenrence/bing_image_scraper.py 40-102 is the same loop.

\* The argument count is an int the caller chooses; nothing checks its sign.
Counts == (0 - 1)..MaxPool

\* An element of a page is an <a class="iusc">: one whose m attribute holds
\* a murl (the URL), one without a usable murl (no m attribute, m that is
\* not JSON, JSON without murl: lines 53, 57, 65-66), or one whose m makes
\* lines 57-61 raise (JSON that is no object, a murl that cannot be hashed),
\* which the except of line 83 turns into a break.
PageUrls == { Url(n) : n \in 1..MaxPool }

PageElements == PageUrls \cup { "skip", "raise" }

Pages == UNION { [ 1..n -> PageElements ] : n \in 0..MaxPage }

\* image_urls[:count], Python's slice: a negative count counts from the end.
SliceTo(urls, n) ==
    IF n >= 0 THEN SubSeq(urls, 1, Min(n, Len(urls)))
    ELSE SubSeq(urls, 1, IF Len(urls) + n > 0 THEN Len(urls) + n ELSE 0)

\* Line 59: url not in seen_urls.
Unseen_Always(url, seen) == TRUE

Unseen(url, seen) == url \notin seen

\* Lines 52-66, the for loop from element k on; st holds image_urls,
\* seen_urls, new_images_found_this_page and whether an element raised.
RECURSIVE ForElement(_, _, _, _)
ForElement(elements, k, cnt, st) ==
    IF k > Len(elements) THEN st
    ELSE LET element == elements[k] IN
         IF element = "raise" THEN [ st EXCEPT !.raised = TRUE ]
         ELSE IF element = "skip" THEN ForElement(elements, k + 1, cnt, st)
         ELSE IF Unseen(element, st.seen)
              THEN LET found == [ st EXCEPT !.urls = Append(st.urls, element),
                                            !.seen = st.seen \cup { element },
                                            !.new = st.new + 1 ]
                   IN  IF Len(found.urls) >= cnt THEN found
                       ELSE ForElement(elements, k + 1, cnt, found)
              ELSE ForElement(elements, k + 1, cnt, st)

\* The code treats a URL as an opaque value (it copies it and hashes it), so
\* the k-th distinct URL the call comes to list is taken as Url(k).
NamedByDiscovery(urls) ==
    \A k \in 1..Len(urls) :
       LET earlier == Range(SubSeq(urls, 1, k - 1))
       IN  urls[k] \in earlier \/ urls[k] = Url(Cardinality(earlier) + 1)

\* Variant of line 68: a page without a new URL never stops the loop.
NoNewImages_Never(new_images_found_this_page, index) == FALSE

\* Line 68: if new_images_found_this_page == 0 and first > 0
NoNewImages(new_images_found_this_page, index) ==
    new_images_found_this_page = 0 /\ index > 0

\* Lines 36-42 and 80-82: the while test holds and session.get or
\* raise_for_status raises a RequestException.
RequestException ==
    /\ scr_pc = "fetch"
    /\ Len(scraped_urls) < count
    /\ scr_pc' = "exit"
    /\ break_line' = 82
    /\ requests_made' = requests_made + 1
    /\ UNCHANGED << count, image_elements, scraped_urls, seen_urls, first,
                    scrape_result >>
    /\ UNCHANGED << engine_vars, scraper_rest >>

\* Lines 36-75 and 83-85: the while test holds and a page is read.
FetchPage ==
    /\ scr_pc = "fetch"
    /\ Len(scraped_urls) < count
    /\ \E page \in Pages :
          LET st == ForElement(page, 1, count,
                               [ urls |-> scraped_urls, seen |-> seen_urls,
                                 new |-> 0, raised |-> FALSE ])
          IN  /\ NamedByDiscovery(st.urls)
              /\ image_elements' = page
              /\ IF page = << >>
                 THEN /\ break_line' = 49
                      /\ scr_pc' = "exit"
                      /\ UNCHANGED << scraped_urls, seen_urls, first >>
                 ELSE /\ scraped_urls' = st.urls
                      /\ seen_urls' = st.seen
                      /\ IF st.raised
                         THEN /\ break_line' = 85
                              /\ scr_pc' = "exit"
                              /\ UNCHANGED first
                         ELSE IF NoNewImages(st.new, first)
                         THEN /\ break_line' = 70
                              /\ scr_pc' = "exit"
                              /\ UNCHANGED first
                         ELSE /\ first' = first + Len(page)
                              /\ IF Len(st.urls) >= count
                                 THEN break_line' = 75 /\ scr_pc' = "exit"
                                 ELSE UNCHANGED break_line /\ scr_pc' = "fetch"
    /\ requests_made' = requests_made + 1
    /\ UNCHANGED << count, scrape_result >>
    /\ UNCHANGED << engine_vars, scraper_rest >>

\* Line 36: the while test fails.
EndWhile ==
    /\ scr_pc = "fetch"
    /\ ~ (Len(scraped_urls) < count)
    /\ scr_pc' = "exit"
    /\ break_line' = 36
    /\ UNCHANGED << count, image_elements, scraped_urls, seen_urls, first,
                    scrape_result, requests_made >>
    /\ UNCHANGED << engine_vars, scraper_rest >>

\* Line 87.
ReturnUrls ==
    /\ scr_pc = "exit"
    /\ scrape_result' = SliceTo(scraped_urls, count)
    /\ scr_pc' = "returned"
    /\ UNCHANGED << count, image_elements, scraped_urls, seen_urls, first,
                    break_line, requests_made >>
    /\ UNCHANGED << engine_vars, scraper_rest >>

EngineIdle ==
    /\ batch_size = MaxBatch
    /\ image_urls = << >> /\ current_winners = << >>
    /\ round_num = 1 /\ stalemate_counter = 0
    /\ next_round_winners = << >> /\ effective_prompt = << >> /\ i = 0
    /\ successful_urls = << >> /\ verdict = << >> /\ judged_with = { }
    /\ pc = "idle" /\ result = None /\ exit_line = 0 /\ forced = FALSE
    /\ render_calls = 0 /\ judge_calls = 0 /\ batches = << >>
    /\ approved = TRUE /\ log = << >> /\ runs = 1 /\ prev_result = None

\* Lines 29-35, for every count.
ScraperInit ==
    /\ EngineIdle
    /\ VlmIdle
    /\ ComposerIdle
    /\ RequestIdle
    /\ LoopIdle
    /\ DownloadIdle
    /\ scr_pc = "fetch"
    /\ count \in Counts
    /\ image_elements = << >>
    /\ scraped_urls = << >>
    /\ seen_urls = { }
    /\ first = 0
    /\ scrape_result = << >>
    /\ break_line = 0
    /\ requests_made = 0

ScraperNext ==
    \/ RequestException
    \/ FetchPage
    \/ EndWhile
    \/ ReturnUrls

ScraperSpec == ScraperInit /\ [][ScraperNext]_vars

\* session.get has a timeout (line 41) and the parsing of a page is finite:
\* a step of the loop that is possible is eventually taken.
FairScraperSpec == ScraperSpec /\ WF_vars(ScraperNext)

\* ------------------------------------------- one download
\* _download_image (src/composer.py 24-55).

\* line 24: retries: int = 2
DefaultRetries == 2

RetriesValues == (0..MaxAttempts) \cup { DefaultRetries }

\* What one pass through lines 37-42 comes to: the bytes are read; or
\* raise_for_status raises a ClientResponseError with status 403, 404 or
\* another one; or the connection raises a ClientSSLError or another
\* ClientError; or a timeout strikes; or something raises that is neither a
\* ClientError nor a TimeoutError.
FetchOutcomes ==
    { "ok", "http_403", "http_404", "http_500", "ssl", "connection", "timeout",
      "other" }

\* line 43: except (aiohttp.ClientError, asyncio.TimeoutError)
Caught(outcome) ==
    outcome \in { "http_403", "http_404", "http_500", "ssl", "connection", "timeout" }

\* Variant of lines 45-50: no error is taken as permanent.
Permanent_Never(outcome) == FALSE

\* lines 45 and 48: ClientResponseError with status 403 or 404, ClientSSLError
Permanent(outcome) == outcome \in { "http_403", "http_404", "ssl" }

\* line 36: for attempt in range(retries)
AnotherAttempt(n, limit) == n < limit

\* lines 36-53: one attempt.
Attempt ==
    /\ dl_pc = "try"
    /\ AnotherAttempt(dl_attempt, dl_retries)
    /\ \E outcome \in FetchOutcomes :
          /\ fetches' = Append(fetches, outcome)
          /\ IF outcome = "ok"
             THEN \* line 42
                  /\ dl_return' = "bytes"
                  /\ dl_pc' = "returned"
                  /\ UNCHANGED dl_attempt
             ELSE IF ~ Caught(outcome)
             THEN \* the exception leaves the function
                  /\ dl_pc' = "raised"
                  /\ UNCHANGED << dl_attempt, dl_return >>
             ELSE IF Permanent(outcome)
             THEN \* lines 47 and 50
                  /\ dl_return' = None
                  /\ dl_pc' = "returned"
                  /\ UNCHANGED dl_attempt
             ELSE \* lines 52-54: the loop goes on
                  /\ dl_attempt' = dl_attempt + 1
                  /\ UNCHANGED << dl_pc, dl_return >>
    /\ UNCHANGED dl_retries
    /\ UNCHANGED << engine_vars, download_rest >>

\* lines 56-57: the loop is over.
AllAttemptsFailed ==
    /\ dl_pc = "try"
    /\ ~ AnotherAttempt(dl_attempt, dl_retries)
    /\ dl_return' = None
    /\ dl_pc' = "returned"
    /\ UNCHANGED << dl_retries, dl_attempt, fetches >>
    /\ UNCHANGED << engine_vars, download_rest >>

\* lines 24-35, for every argument retries.
DownloadInit ==
    /\ EngineIdle
    /\ VlmIdle
    /\ ComposerIdle
    /\ RequestIdle
    /\ LoopIdle
    /\ ScraperIdle
    /\ dl_pc = "try"
    /\ dl_retries \in RetriesValues
    /\ dl_attempt = 0
    /\ fetches = << >>
    /\ dl_return = None

DownloadNext ==
    \/ Attempt
    \/ AllAttemptsFailed

DownloadSpec == DownloadInit /\ [][DownloadNext]_vars

\* ------------------------------------------- the reference tournament
\* process_in_batches (src/refenrence/image_composer.py 151-218) driven by
\* vlm_selector_callback (src/refenrence/main_scraper.py 75-99). The locals
\* are kept in the variables of the same names.

\* image_composer.py line 172: batch_size = 16
RefBatchSize == 16

\* The lists the function is called on: empty, within one batch, beyond one.
RefPools == { [ k \in 1..n |-> Url(k) ] : n \in 0..(RefBatchSize + MaxPool) }

\* select_best_image returns None (here << >>) or an int (here << n >>):
\* a label of the collage, or a number below 1 or above the last label.
SelectBestImage(num_images) ==
    { << >> } \cup { << n >> : n \in (0 - 1)..(num_images + 1) }

\* Variant of main_scraper.py lines 89-99: every label of the collage is
\* returned when the judge names one.
vlm_selector_callback_All(selected_number, num_images) ==
    IF selected_number # << >> THEN [ k \in 1..num_images |-> k ] ELSE << >>

\* main_scraper.py lines 87-99
vlm_selector_callback(selected_number, num_images) ==
    IF selected_number # << >>
    THEN IF 1 <= selected_number[1] /\ selected_number[1] <= num_images
         THEN << selected_number[1] >>
         ELSE << >>
    ELSE << >>

ReverseOf(s) == [ k \in 1..Len(s) |-> s[Len(s) + 1 - k] ]

\* create_image_collage, lines 88-100: the candidates of the batch whose
\* download succeeded (here none, all, all but the first, or one), in the
\* order in which the downloads completed (here batch order or its reverse).
RefRendered(batch_urls) ==
    LET lists == { << >>, batch_urls, Tail(batch_urls) }
                 \cup { << batch_urls[k] >> : k \in 1..Len(batch_urls) }
    IN  lists \cup { ReverseOf(list) : list \in lists }

\* lines 168-172
RefEnter ==
    /\ pc = "idle"
    /\ IF image_urls = << >>
       THEN /\ exit_line' = 169          \* raise ValueError
            /\ pc' = "done"
       ELSE /\ pc' = "loop"
            /\ UNCHANGED exit_line
    /\ UNCHANGED << image_urls, batch_size, current_winners, round_num,
                    stalemate_counter, next_round_winners, effective_prompt, i,
                    successful_urls, verdict, judged_with, result, forced,
                    render_calls, judge_calls, batches, approved, log, runs,
                    prev_result >>
    /\ UNCHANGED side_vars

\* lines 174-176: the while test holds.
RefEnterRound ==
    /\ pc = "loop"
    /\ Len(current_winners) > 1
    /\ next_round_winners' = << >>
    /\ i' = 0
    /\ batches' = << >>
    /\ pc' = "batch"
    /\ UNCHANGED << image_urls, batch_size, current_winners, round_num,
                    stalemate_counter, effective_prompt, successful_urls, verdict,
                    judged_with, result, exit_line, forced, render_calls,
                    judge_calls, approved, log, runs, prev_result >>
    /\ UNCHANGED side_vars

\* lines 174 and 215-218: the while test fails.
RefReturn ==
    /\ pc = "loop"
    /\ ~ (Len(current_winners) > 1)
    /\ IF current_winners = << >>
       THEN /\ exit_line' = 216          \* raise RuntimeError
            /\ UNCHANGED result
       ELSE /\ exit_line' = 218
            /\ result' = current_winners[1]
    /\ pc' = "done"
    /\ UNCHANGED << image_urls, batch_size, current_winners, round_num,
                    stalemate_counter, next_round_winners, effective_prompt, i,
                    successful_urls, verdict, judged_with, forced, render_calls,
                    judge_calls, batches, approved, log, runs, prev_result >>
    /\ UNCHANGED side_vars

\* lines 179-194: the next batch is cut and rendered.
RefRender ==
    /\ pc = "batch"
    /\ i < Len(current_winners)
    /\ LET batch_urls == Slice(current_winners, i, batch_size)
       IN  /\ batches' = Append(batches, batch_urls)
           /\ \E urls \in RefRendered(batch_urls) :
                 /\ successful_urls' = urls
                 /\ IF urls = << >>
                    THEN i' = i + batch_size /\ pc' = "batch"
                    ELSE UNCHANGED i /\ pc' = "judge"
    /\ render_calls' = render_calls + 1
    /\ verdict' = << >>
    /\ UNCHANGED << image_urls, batch_size, current_winners, round_num,
                    stalemate_counter, next_round_winners, effective_prompt,
                    judged_with, result, exit_line, forced, judge_calls, approved,
                    log, runs, prev_result >>
    /\ UNCHANGED side_vars

\* lines 197-207: the callback answers; its labels are mapped to candidates.
RefJudge ==
    /\ pc = "judge"
    /\ \E selected_number \in SelectBestImage(Len(successful_urls)) :
          LET selected_indices ==
                  vlm_selector_callback(selected_number, Len(successful_urls))
          IN  /\ verdict' = selected_indices
              /\ next_round_winners' =
                    next_round_winners \o BatchWinners(selected_indices, successful_urls)
    /\ judge_calls' = judge_calls + 1
    /\ i' = i + batch_size
    /\ pc' = "batch"
    /\ UNCHANGED << image_urls, batch_size, current_winners, round_num,
                    stalemate_counter, effective_prompt, successful_urls,
                    judged_with, result, exit_line, forced, render_calls, batches,
                    approved, log, runs, prev_result >>
    /\ UNCHANGED side_vars

\* lines 209-213: the for loop is over.
RefEndRound ==
    /\ pc = "batch"
    /\ ~ (i < Len(current_winners))
    /\ IF next_round_winners = << >>
       THEN /\ exit_line' = 210          \* raise RuntimeError
            /\ pc' = "done"
            /\ UNCHANGED << current_winners, round_num >>
       ELSE /\ current_winners' = next_round_winners
            /\ round_num' = round_num + 1
            /\ pc' = "loop"
            /\ UNCHANGED exit_line
    /\ verdict' = << >>
    /\ UNCHANGED << image_urls, batch_size, stalemate_counter, next_round_winners,
                    effective_prompt, i, successful_urls, judged_with, result,
                    forced, render_calls, judge_calls, batches, approved, log,
                    runs, prev_result >>
    /\ UNCHANGED side_vars

\* The call, for every list.
RefInit ==
    /\ VlmIdle
    /\ ComposerIdle
    /\ RequestIdle
    /\ LoopIdle
    /\ ScraperIdle
    /\ DownloadIdle
    /\ image_urls \in RefPools
    /\ batch_size = RefBatchSize
    /\ current_winners = image_urls
    /\ round_num = 1 /\ stalemate_counter = 0
    /\ next_round_winners = << >> /\ effective_prompt = << >> /\ i = 0
    /\ successful_urls = << >> /\ verdict = << >> /\ judged_with = { }
    /\ pc = "idle" /\ result = None /\ exit_line = 0 /\ forced = FALSE
    /\ render_calls = 0 /\ judge_calls = 0 /\ batches = << >>
    /\ approved = TRUE /\ log = << >> /\ runs = 1 /\ prev_result = None

RefNext ==
    \/ RefEnter
    \/ RefEnterRound
    \/ RefReturn
    \/ RefRender
    \/ RefJudge
    \/ RefEndRound

RefSpec == RefInit /\ [][RefNext]_vars

\* Every download has a timeout and select_best_image gives up after
\* max_retries: each call returns, and a step that is possible is taken.
FairRefSpec == RefSpec /\ WF_vars(RefNext)

\* ------------------------------------------- properties of the judge call
\* The structured records of a response that can be read: objects with no
\* "{" before them and no "}" behind them.
UsableRecords(text) ==
    { k \in 1..Len(text) :
        /\ text[k].t = "object"
        /\ \A j \in 1..(k - 1) : ~ HasOpen(text[j])
        /\ \A j \in (k + 1)..Len(text) : ~ HasClose(text[j]) }

HasListRecord(text) ==
    \E k \in UsableRecords(text) : text[k].selected.kind = "list"

TheList(text) ==
    text[CHOOSE k \in UsableRecords(text) : text[k].selected.kind = "list"].selected.elems

\* The labels among the elements of a list: numbers n >= 0 and strings of
\* digits, in the order of the list.
RECURSIVE IntegerLabels(_)
IntegerLabels(elems) ==
    IF elems = << >> THEN << >>
    ELSE LET last == elems[Len(elems)]
         IN  IntegerLabels(SubSeq(elems, 1, Len(elems) - 1))
             \o (IF last.k \in { "int", "str" } THEN << last.n >> ELSE << >>)

\* Every run of digits of the raw text, in order of appearance.
RECURSIVE IntegerSubstrings(_)
IntegerSubstrings(text) ==
    IF text = << >> THEN << >>
    ELSE IntegerSubstrings(SubSeq(text, 1, Len(text) - 1))
         \o TokenDigits(text[Len(text)])

\* What the parser is to yield for a response, tier by tier.
Expected(text) ==
    IF HasListRecord(text) THEN IntegerLabels(TheList(text))
    ELSE IntegerSubstrings(text)

\* C17. For every response of the provider the call returns, from that
\* attempt, the integer labels of the list selected_indices of the usable
\* structured record, in order; with no such list, every integer substring of
\* the raw text in order, duplicates kept; with neither, the empty list
\* without error.
C17_ParserTiers ==
    [][ vlm_pc = "parse" =>
          /\ vlm_pc' = "returned"
          /\ returned' = Expected(response)
          /\ raised' = raised ]_vars

\* What remains of C17 for the responses whose list holds no string that
\* str.isdigit() accepts and int() rejects.
ParserTiersOfPlainLists ==
    [][ (vlm_pc = "parse"
         /\ \A k \in 1..Len(response) : \A e \in 1..Len(response[k].selected.elems) :
               response[k].selected.elems[e].k # "sup") =>
          /\ vlm_pc' = "returned"
          /\ returned' = Expected(response)
          /\ raised' = raised ]_vars

\* The response selects nothing: its usable record has an empty list, or it
\* has no such list and its text holds no integer.
EmptySelection(text) ==
    IF HasListRecord(text) THEN TheList(text) = << >>
    ELSE IntegerSubstrings(text) = << >>

\* C18. A response that parses to an empty selection makes the call return
\* the empty list from that attempt: the provider is not called again and
\* the attempt is not counted as failed; when it is the first answer the
\* call has made exactly one provider call.
C18_EmptyIsNoError ==
    [][ (vlm_pc = "parse" /\ EmptySelection(response)) =>
          /\ vlm_pc' = "returned"
          /\ returned' = << >>
          /\ vlm_line' \in { 63, 76 }
          /\ provider_calls' = provider_calls
          /\ raised' = raised
          /\ raised = 0 => provider_calls' = 1 ]_vars

\* The provider's first answer was plain text without an integer ("none
\* match"): the empty list came back after one call.
C18_Witness ==
    /\ vlm_pc = "returned" /\ vlm_line = 76
    /\ response = << Token("text", 0, Absent, 0) >>
    /\ returned = << >>
    /\ provider_calls = 1 /\ raised = 0

\* C19. The call makes at most 3 provider attempts, a further attempt only
\* after the one before it raised; it returns the labels parsed from the
\* first attempt that does not raise, and the empty list after 3 raising
\* attempts; nothing else ends the call.
C19_Retries ==
    /\ vlm_pc \in { "call", "parse", "returned" }
    /\ provider_calls <= retries
    /\ attempt = raised
    /\ provider_calls = raised + (IF vlm_pc = "call" \/ vlm_line = 87 THEN 0 ELSE 1)
    /\ (vlm_pc = "call" /\ raised < retries) => (ENABLED TextChat /\ ~ ENABLED GiveUp)
    /\ (vlm_pc = "call" /\ raised = retries) => (ENABLED GiveUp /\ ~ ENABLED TextChat)
    /\ vlm_pc = "returned" =>
          IF vlm_line = 87
          THEN raised = retries /\ returned = << >>
          ELSE raised < retries /\ returned = Expected(response)

\* Three attempts raised and the call
\* returned the empty list.
C19_Witness ==
    /\ vlm_pc = "returned" /\ vlm_line = 87
    /\ returned = << >>
    /\ provider_calls = 3 /\ raised = 3

\* --------------------------------------------- properties of the renderers
IsSubsequenceOf(list, batch) ==
    list = SelectSeq(batch, LAMBDA u : u \in Range(list))

Rendered ==
    /\ IsSubsequenceOf(included, batch_in)
    /\ Range(included) = { batch_in[k] : k \in { j \in 1..Len(batch_in) : tasks[j] = "ok" } }
    /\ Len(collage) = Len(included)
    /\ \A N \in 1..Len(collage) : collage[N].label = N /\ collage[N].image = included[N]
    /\ (collage = << >> /\ included = << >>) <=> (\A k \in 1..Len(batch_in) : tasks[k] # "ok")

\* C20. Whatever the fetch and decode results and the order in which they
\* complete, the list a renderer returns holds the candidates that were
\* fetched and decoded, in batch order; tile N of the composite is labelled N
\* and shows entry N of the list; (none, []) is returned exactly when every
\* candidate failed.
C20_RenderedList ==
    rc_pc = "returned" => Rendered

\* What remains of C20 for the renderer the plugin uses.
RenderedListOfComposer ==
    (rc_pc = "returned" /\ renderer = "create_collage") => Rendered

\* ------------------------------------------------ properties of a request
Ended == req_pc = "ended"
LastMessage == messages[Len(messages)]
Invoked(stage) == Cardinality({ k \in 1..Len(stages) : stages[k] = stage })

Pipeline == << "scrape", "tournament", "finalizer" >>

\* C26. The stages of a request are invoked in the order scrape, tournament,
\* finalizer, each at most once: the tournament only on a non-empty scraped
\* list, the finalizer only on the winner the tournament returned.  Without a
\* provider, with an empty scrape, or with a failed tournament the request
\* ends there with the message of that case.
C26_PipelineOrder ==
    /\ stages = SubSeq(Pipeline, 1, Len(stages))
    /\ Invoked("tournament") > 0 <=> pc # "idle"
    /\ Invoked("tournament") > 0 => (Invoked("scrape") = 1 /\ image_urls # << >>)
    /\ Invoked("finalizer") > 0 =>
          /\ pc = "done"
          /\ winner_url = result
          /\ winner_url \in Range(image_urls)
    /\ Ended =>
          /\ LastMessage = NoProviderMessage <=> stages = << >>
          /\ LastMessage = ScrapeEmptyMessage <=> stages = << "scrape" >>
          /\ LastMessage \in { NoResultMessage, ErrorMessage }
                <=> stages = << "scrape", "tournament" >>
          /\ LastMessage = NoResultMessage => (pc = "done" /\ result = None)
          /\ LastMessage.kind \in { "delivered", "delivery_failure" }
                <=> stages = Pipeline

\* The tournament ran and ended with no survivor: the request ended with the
\* message of that case and the finalizer was not invoked.
C26_Witness ==
    /\ Ended /\ LastMessage = NoResultMessage
    /\ stages = << "scrape", "tournament" >>
    /\ exit_line = 199 /\ judge_calls > 0

\* ------------------------------------- properties of two concurrent calls
\* A step of the tournament run alone.
AloneStep ==
    EnterRound \/ ExitLoop \/ RenderBatch \/ JudgeBatch \/ EndRound \/ Return

\* C22. Two calls on one instance, interleaved at their awaits: a call that
\* is resumed finds its pool, round number, stalemate counter and result as
\* it left them, whatever the other call did meanwhile; between two awaits a
\* call takes the steps it takes alone; self.batch_size is written by none.
C22_NoSharedState ==
    [][ /\ batch_size' = batch_size
        /\ running' # running =>
              /\ Snapshot' = frames[running']
              /\ frames'[running] = Snapshot
              /\ frames'[running'] = frames[running']
        /\ running' = running => (frames' = frames /\ AloneStep) ]_vars

\* Both calls are suspended at the judge call: the first in round 2 after a
\* stalemate, the second in round 1.
C22_Witness ==
    /\ frames # << >>
    /\ running = 2 /\ pc = "judge" /\ round_num = 1 /\ stalemate_counter = 0
    /\ frames[1].pc = "judge" /\ frames[1].round_num = 2
    /\ frames[1].stalemate_counter = 1

\* ------------------------------------------- properties of the scenario
SizesOf(bs) == [ k \in 1..Len(bs) |-> Len(bs[k]) ]

Round1Over ==
    round_num = 1 /\ log = << >> /\ pc = "batch" /\ ~ MoreBatches(current_winners, i)

\* Round 1 has the batches 8, 8, 4 and no final-round directive; it leaves 3
\* candidates; round 2 is judged with the final-round directive.
ScenarioRounds ==
    /\ Round1Over =>
          SizesOf(batches) = << ScenarioBatch, ScenarioBatch, ScenarioPool - 2 * ScenarioBatch >>
    /\ (InRound /\ round_num = 1) => ~ HasFinalRound(effective_prompt)
    /\ log # << >> => (log[1].size = ScenarioPool /\ log[1].next_size = 3)
    /\ (InRound /\ round_num = 2) =>
          /\ Len(current_winners) = 3
          /\ Len(current_winners) <= batch_size
          /\ HasFinalRound(effective_prompt)

RECURSIVE Readable(_)
Readable(page) ==
    IF page = << >> \/ Head(page) = "raise" THEN << >>
    ELSE << Head(page) >> \o Readable(Tail(page))

\* A sequence without the later occurrences of its members.
RECURSIVE FirstOccurrences(_)
FirstOccurrences(s) ==
    IF s = << >> THEN << >>
    ELSE LET front == FirstOccurrences(SubSeq(s, 1, Len(s) - 1))
             last == s[Len(s)]
         IN  IF last \in Range(front) THEN front ELSE Append(front, last)

\* The URLs a page discovers that were not discovered before, in page order.
Discoveries(page, known) ==
    LET IsNew(element) == element \in PageUrls /\ element \notin known
    IN  FirstOccurrences(SelectSeq(Readable(page), IsNew))

FirstN(s, n) == SubSeq(s, 1, Min(n, Len(s)))

\* C24. The list of the candidate source grows page by page by the URLs the
\* page discovers for the first time, in page order, and stops at count; a
\* failed request adds nothing; the list has no duplicate URL and, for a
\* count that is not negative, at most count members; what is returned is
\* that list. A negative count returns the empty list.
C24_Discovery ==
    [][ /\ (scr_pc = "fetch" /\ scr_pc' # "fetch" /\ break_line' \in { 36, 82 })
            => scraped_urls' = scraped_urls
        /\ (scr_pc = "fetch" /\ ~ (break_line' \in { 36, 82 } /\ scr_pc' = "exit"))
            => scraped_urls' =
                  FirstN(scraped_urls
                           \o Discoveries(image_elements', Range(scraped_urls)),
                         count)
        /\ scr_pc # "fetch" => scraped_urls' = scraped_urls
        /\ NoDup(scraped_urls')
        /\ count >= 0 => Len(scraped_urls') <= count
        /\ scr_pc' = "returned" =>
              /\ scrape_result' = scraped_urls'
              /\ NoDup(scrape_result')
              /\ count >= 0 => Len(scrape_result') <= count
              /\ count < 0 => scrape_result' = << >> ]_vars

\* Two pages: the second repeats the URL of the first and adds one, which
\* fills the count.
C24_Witness ==
    /\ scr_pc = "returned" /\ count = 2 /\ first = 3 /\ break_line = 75
    /\ Len(scrape_result) = 2
    /\ image_elements = << scrape_result[1], scrape_result[2] >>

\* Fewer than count: the source ran dry.
C24_Fewer ==
    /\ scr_pc = "returned" /\ break_line = 70
    /\ Len(scrape_result) = 1 /\ count = 2

\* ------------------------------------------- the pool of a round
\* The round is at work on its pool: between the start of the round
\* (line 144) and the end of its for loop.
PoolInUse ==
    \/ pc = "judge"
    \/ pc = "batch" /\ MoreBatches(current_winners, i)
    \/ pc = "loop" /\ LoopCondition(current_winners) /\ round_num <= MaxRounds

\* C25. No step of a call changes the list the caller passed in, and no
\* step inside a round changes the round's pool; in round 1 the pool is the
\* caller's list; only the end of a round (lines 202, 212) puts a new list
\* in the pool's place.
C25_PoolNotMutated ==
    [][ /\ runs' = runs => image_urls' = image_urls
        /\ PoolInUse => current_winners' = current_winners
        /\ (round_num' = 1 /\ ~ forced') => current_winners' = image_urls'
        /\ current_winners' # current_winners =>
              \/ runs' # runs
              \/ /\ pc = "batch" /\ ~ MoreBatches(current_winners, i)
                 /\ Range(current_winners') \subseteq Range(next_round_winners) ]_vars

\* Round 2 is judging a pool that is smaller than the caller's list, and
\* the caller's list is whole.
C25_Witness ==
    /\ pc = "judge" /\ round_num = 2 /\ runs = 1
    /\ Len(image_urls) = MaxPool
    /\ Len(current_winners) < Len(image_urls)
    /\ \A k \in 1..Len(image_urls) : image_urls[k] = Url(k)

\* ------------------------------------------- malformed structured content
\* The response has a brace-delimited part: a "{" and a "}" behind it.
HasBraces(text) ==
    \E a, b \in 1..Len(text) :
       /\ a <= b /\ HasOpen(text[a]) /\ HasClose(text[b])
       /\ a = b => text[a].t = "object"

\* The brace-delimited part does not parse, or parses to a record without a
\* list selected_indices.
Malformed(text) == HasBraces(text) /\ ~ HasListRecord(text)

\* C27. A response whose brace-delimited part is malformed makes the call
\* return, from that attempt, the integers of the raw text: no exception, no
\* failed attempt, no further provider call; a response whose record is
\* accepted never reaches the returns of the integer scan.
C27_MalformedFallsThrough ==
    [][ /\ (vlm_pc = "parse" /\ Malformed(response)) =>
              /\ vlm_pc' = "returned"
              /\ returned' = IntegerSubstrings(response)
              /\ vlm_line' = (IF IntegerSubstrings(response) = << >> THEN 76 ELSE 79)
              /\ raised' = raised /\ attempt' = attempt
              /\ provider_calls' = provider_calls
        /\ (vlm_pc = "parse" /\ HasListRecord(response)) =>
              vlm_line' \notin { 76, 79 } ]_vars

\* The record is followed by a stray "}" and does not parse; the labels of
\* its list are returned by the integer scan.
C27_Witness ==
    /\ vlm_pc = "returned" /\ vlm_line = 79 /\ raised = 0 /\ provider_calls = 1
    /\ Len(response) = 2
    /\ response[1].t = "object" /\ response[1].selected.kind = "list"
    /\ response[2].t = "close"
    /\ returned = << 1, 2 >>

\* ------------------------------------------- the winner's history
\* C28. Step by step: the pool holds only members of the list the call was
\* made on; within a call it never gains a member; the survivors of a round
\* are members of its pool, and the pool the round leaves holds only
\* survivors of that round; the winner is a member of the last pool. So a
\* winner, converged or forced, is a member of the initial list and was
\* among the survivors of every round that ran.
C28_WinnerSurvivedAll ==
    [][ /\ Range(current_winners') \subseteq Range(image_urls')
        /\ runs' = runs => Range(current_winners') \subseteq Range(current_winners)
        /\ pc' \in { "batch", "judge" } =>
              Range(next_round_winners') \subseteq Range(current_winners')
        /\ (pc = "batch" /\ ~ MoreBatches(current_winners, i) /\ ~ Done') =>
              /\ current_winners' # << >>
              /\ Range(current_winners') \subseteq Range(next_round_winners)
        /\ (Done' /\ result' # None) =>
              /\ result' \in Range(current_winners')
              /\ result' \in Range(image_urls')
              /\ log' # << >> => result' \in Range(next_round_winners') ]_vars

\* A winner by convergence after two rounds: the last candidate of the list.
C28_Witness ==
    /\ Done /\ ~ forced /\ runs = 1 /\ Len(log) = 2
    /\ Len(image_urls) = MaxPool
    /\ result = image_urls[MaxPool]

\* ------------------------------------------- the order of work in a round
\* The step renders a batch; the step asks the judge.
Renders == render_calls' = render_calls + 1
Judges == judge_calls' = judge_calls + 1

\* The offset of the batch after the n batches handled so far.
OffsetAfter(n) == n * batch_size

\* C29. Within a call a step renders one batch or asks the judge once or
\* does neither. A render happens only when no batch is waiting for its
\* judge, and it is of the slice of the pool after the batches rendered
\* before it in the round, so no slice is rendered twice. The judge is asked
\* only in the step after a render that included a candidate, about that
\* batch's rendered list, and then the round is back at the for loop: one
\* judge call per rendered batch at most, none for an empty render.
C29_BatchesInSequence ==
    [][ runs' = runs =>
          /\ render_calls' \in { render_calls, render_calls + 1 }
          /\ judge_calls' \in { judge_calls, judge_calls + 1 }
          /\ ~ (Renders /\ Judges)
          /\ Renders =>
                /\ pc = "batch" /\ pc' \in { "batch", "judge" }
                /\ OffsetAfter(Len(batches)) < Len(current_winners)
                /\ batches' = Append(batches,
                                     SubSeq(current_winners, OffsetAfter(Len(batches)) + 1,
                                            Min(OffsetAfter(Len(batches) + 1),
                                                Len(current_winners))))
                /\ pc' = "judge" =>
                      /\ successful_urls' # << >>
                      /\ IsSubsequenceOf(successful_urls', batches'[Len(batches')])
          /\ pc' = "judge" => Renders
          /\ Judges =>
                /\ pc = "judge" /\ pc' = "batch"
                /\ successful_urls # << >>
                /\ IsSubsequenceOf(successful_urls, batches[Len(batches)])
                /\ batches' = batches
          /\ (~ Renders /\ pc' = "batch" /\ pc = "batch") => batches' = batches
          /\ judge_calls' <= render_calls' ]_vars

\* In round 1 the first batch was rendered empty and skipped, the second is
\* with the judge.
C29_Witness ==
    /\ pc = "judge" /\ round_num = 1
    /\ render_calls = 2 /\ judge_calls = 0 /\ Len(batches) = 2
    /\ successful_urls # << >>

\* ------------------------------------------- properties of one download
\* An attempt after which there is to be no other: it succeeded, or it
\* failed with HTTP 403 or 404 or with an SSL error.
Final(outcome) == outcome \in { "ok", "http_403", "http_404", "ssl" }

\* A failure by a client error or a timeout.
ClientErrorOrTimeout(outcome) ==
    outcome \in { "http_403", "http_404", "http_500", "ssl", "connection", "timeout" }

\* C30. One call makes at most retries attempts; only the last attempt made
\* can be a success, a 403, a 404 or an SSL error; the call returns the
\* bytes exactly when its last attempt succeeded and None otherwise; it
\* raises only when an attempt failed with something other than a client
\* error or a timeout; once every attempt allowed has failed, or one
\* attempt was final, the call has returned or is about to without
\* another attempt.
C30_Download ==
    /\ Len(fetches) <= dl_retries
    /\ \A k \in 1..(Len(fetches) - 1) : ~ Final(fetches[k])
    /\ dl_pc = "raised" =>
          /\ fetches # << >>
          /\ ~ ClientErrorOrTimeout(fetches[Len(fetches)])
          /\ fetches[Len(fetches)] # "ok"
    /\ dl_pc = "returned" =>
          dl_return = (IF fetches # << >> /\ fetches[Len(fetches)] = "ok"
                       THEN "bytes" ELSE None)
    /\ (fetches # << >> /\ Final(fetches[Len(fetches)])) => dl_pc = "returned"
    /\ (dl_pc = "try" /\ Len(fetches) = dl_retries) =>
          (~ ENABLED Attempt /\ ENABLED AllAttemptsFailed)
    /\ dl_pc \in { "idle", "try", "returned", "raised" }

\* Three attempts were allowed; the first timed out, the second met a 404,
\* and the call returned None without the third.
C30_Witness ==
    /\ dl_pc = "returned" /\ dl_retries = 3 /\ dl_return = None
    /\ fetches = << "timeout", "http_404" >>

\* ------------------------------------------- the pagination loop ends
\* The step is an iteration of the while loop: a request was made.
Iteration == requests_made' = requests_made + 1

\* C31. The call returns. Every iteration of the loop adds a URL to the
\* list, or is the one with first = 0, or leaves the loop (line 49 with no
\* element, line 70 with no new URL on a later page, line 75 with the count
\* reached, line 82 or 85 after an error); the iterations that add a URL
\* are at most count; the requests made are at most count + 1, and none for
\* a count below 1.
C31_PaginationEnds ==
    /\ [][ /\ requests_made' \in { requests_made, requests_made + 1 }
           /\ Iteration =>
                 /\ scr_pc = "fetch" /\ Len(scraped_urls) < count
                 /\ \/ Len(scraped_urls') > Len(scraped_urls)
                    \/ first = 0
                    \/ scr_pc' = "exit" /\ break_line' \in { 49, 70, 82, 85 }
                 /\ scr_pc' = "fetch" => first' > 0
                 /\ (scr_pc' = "fetch" /\ first > 0) =>
                       Len(scraped_urls') > Len(scraped_urls)
           /\ Len(scraped_urls') <= (IF count > 0 THEN count ELSE 0)
           /\ requests_made' <= (IF count > 0 THEN count + 1 ELSE 0) ]_vars
    /\ <>(scr_pc = "returned")

\* The most requests a count of 2 allows: a first page without a URL, a
\* page with one new URL, a page with none.
C31_Witness ==
    /\ scr_pc = "returned" /\ count = 2 /\ requests_made = 3
    /\ break_line = 70 /\ Len(scrape_result) = 1

\* ------------------------------------------- the reference tournament ends
\* C32. With the callback of main_scraper a judged batch adds at most one
\* survivor, so a round leaves at most one survivor per batch; a round on a
\* pool of more than one candidate that produces a pool produces a smaller
\* one; the call ends: it returns a member of the list it was called on
\* (line 218), or raises RuntimeError after a round without a survivor
\* (line 210), or raises ValueError for the empty list (line 169); line 216
\* is never reached; stalemate_counter plays no part.
C32_ReferenceEnds ==
    /\ [][ /\ pc = "judge" =>
                 /\ Len(verdict') <= 1
                 /\ Len(next_round_winners') <= Len(next_round_winners) + 1
           /\ Len(next_round_winners') <= Len(batches')
           /\ (pc = "batch" /\ pc' = "loop") =>
                 /\ Len(current_winners) > 1
                 /\ Len(current_winners') >= 1
                 /\ Len(current_winners') < Len(current_winners)
                 /\ Range(current_winners') \subseteq Range(current_winners)
           /\ pc' = "done" =>
                 \/ /\ exit_line' = 218 /\ Len(current_winners') = 1
                    /\ result' = current_winners'[1]
                    /\ result' \in Range(image_urls')
                 \/ /\ exit_line' = 210 /\ result' = None
                    /\ next_round_winners' = << >> /\ Len(current_winners') > 1
                 \/ /\ exit_line' = 169 /\ result' = None /\ image_urls' = << >>
           /\ stalemate_counter' = 0 /\ ~ forced' ]_vars
    /\ <>(pc = "done")

\* Two rounds: two batches with one survivor each, then one batch; the
\* winner is the last candidate of the list.
C32_Witness ==
    /\ pc = "done" /\ exit_line = 218 /\ round_num = 3
    /\ Len(image_urls) = RefBatchSize + 1
    /\ result = image_urls[RefBatchSize + 1]
    /\ render_calls = 3 /\ judge_calls = 3

====
